---------------------------- MODULE Spec2Model ----------------------------
(***************************************************************************)
(* Model of the binary-options backtesting repository:                     *)
(*   - TopResultsTracker (shearch.py): three bounded heaps of results;     *)
(*   - SuperTrend indicator (default.py / main_backtest.py);               *)
(*   - BinaryOptionsStrategy (default.py): the per-candle trade lifecycle. *)
(*                                                                         *)
(* Units.  Prices are integers (ticks).  Times are integer minutes since   *)
(* midnight of day 0.  Money is kept in hundredths (payout_rate is a       *)
(* percentage), win_rate in whole percent, the composite score in          *)
(* thousandths.                                                            *)
(***************************************************************************)
EXTENDS Integers, Sequences, FiniteSets, TLC

VARIABLES
    \* ---- TopResultsTracker (shearch.py:71-76) ----
    results_by_winrate,   \* heap (list) of <<-win_rate, result>>
    results_by_pnl,       \* heap (list) of <<-total_pnl, result>>
    results_by_score,     \* heap (list) of <<-score, result>>
    all_ids,              \* set of accepted combination ids
    max_results,          \* capacity of each heap
    \* ---- history of the add_result calls (not program state) ----
    ncalls,               \* number of add_result calls made so far
    passed_ids,           \* combination ids passed in any call so far
    id_reused,            \* some call passed an id an earlier call had passed
    raised_ever,          \* some call ended by raising TypeError
    offered,              \* results that passed the duplicate-id test
    last_call,            \* the last call: its result, the heaps before it, how it ended
    \* ---- generate_smart_combinations (shearch.py:151-200) ----
    rng,                  \* [seed, by]: the seed the global random generator was
                          \* last given, and who gave it
    generated,            \* the last two calls: [prev, last], each a call record
    \* ---- run_optimized_search (shearch.py:264-343) ----
    search,               \* the loop's position and counters, its filters, what it
                          \* returned and printed, and how the last iteration went
    \* ---- OptimizedResult.score (shearch.py:55-65) ----
    scored,               \* the last result score() was called on, and its value
    \* ---- optimize_parameters (main_backtest.py:383-424) ----
    optimizer,            \* the loop's position, the results of the runs so far,
                          \* best_params, best_result, best_score, what it returned
    \* ---- strategy parameters (default.py:66-101), fixed for a run ----
    params,
    \* ---- the data feed: the bar being processed ----
    candle,               \* [time, high, low, close, atr, ema1, adx, rsi]
    \* ---- SuperTrend lines (default.py:12) ----
    st_len,               \* len(self) of the indicator, see ForwardLen
    st,                   \* [supertrend, trend, signal_bars, nan]: the lines at [0]
    \* ---- BinaryOptionsStrategy (default.py:127-139) ----
    gaps,                 \* number of missing candles in the feed so far
    strategy,             \* the strategy object's fields, and the history of the run
    \* ---- BinaryOptionsAnalyzer (default.py:365-366, main_backtest.py:328-329) ----
    analyzer              \* [stopped, results, main_results]: self.results of the
                          \* analyzer of default.py and of main_backtest.py

trackerVars == <<results_by_winrate, results_by_pnl, results_by_score, all_ids,
                 max_results, ncalls, passed_ids, id_reused, raised_ever, offered, last_call>>

genVars == <<rng, generated>>

searchVars == <<search, scored, optimizer>>

feedVars == <<params, candle>>

stVars == <<st_len, st>>

runVars == <<gaps, strategy, analyzer>>

vars == <<trackerVars, genVars, searchVars, feedVars, stVars, runVars>>

(***************************************************************************)
(* Bounds of the model.                                                    *)
(***************************************************************************)
\* capacity K of each tracker (TopResultsTracker.max_results)
MaxResults == 2
\* number of add_result calls explored
MaxCalls == 4
\* number of bars of one backtest run
MaxBars == 14
\* number of missing candles (a step of two intervals) in one feed
MaxGaps == 1
\* number of trades settled before the analyzer stops
MaxSettled == 5
\* largest max_combinations passed to generate_smart_combinations
MaxRequested == 7
\* largest clock reading (milliseconds) at a call
MaxClock == 5
\* number of combinations of one search
MaxCombos == 7
\* number of combinations of one search that do not end as a valid result
MaxDiscarded == 2

Min(a, b) == IF a < b THEN a ELSE b
Max(a, b) == IF a > b THEN a ELSE b

(***************************************************************************)
(* OptimizedResult (shearch.py:27-65).                                     *)
(***************************************************************************)
\* The metric triples add_result is called with: win_rate in percent,
\* total_pnl in currency units, profit_factor finite or the infinite sentinel.
WinRates == {50, 60, 100}
Pnls == {5, 10}
\* a run without a losing trade reports the infinite profit factor
ProfitFactorOf(wr) == IF wr = 100 THEN [inf |-> TRUE, val |-> 0]
                      ELSE [inf |-> FALSE, val |-> 2]

\* score(), in thousandths: 0.3*min(wr/100,1) + 0.4*min(max(pnl/100,-1),1)
\*                          + 0.3*(min(pf/5,1) if pf != inf else 1)
\* score() with norm_pnl = min(total_pnl / 100, 1): no floor at -1
score_no_pnl_floor(r) ==
    LET norm_winrate == Min(10 * r.win_rate, 1000)
        norm_pnl     == Min(10 * r.total_pnl, 1000)
        norm_pf      == IF r.profit_factor.inf THEN 1000
                        ELSE Min(200 * r.profit_factor.val, 1000)
    IN  (3 * norm_winrate + 4 * norm_pnl + 3 * norm_pf) \div 10

Score(r) ==
    LET norm_winrate == Min(10 * r.win_rate, 1000)
        norm_pnl     == Min(Max(10 * r.total_pnl, -1000), 1000)
        norm_pf      == IF r.profit_factor.inf THEN 1000
                        ELSE Min(200 * r.profit_factor.val, 1000)
    IN  (3 * norm_winrate + 4 * norm_pnl + 3 * norm_pf) \div 10

(***************************************************************************)
(* heapq on lists of tuples <<key, result>> (the C implementation CPython  *)
(* uses).  Positions are 0-based as in the source; a TLA+ sequence is      *)
(* 1-based, hence the "+ 1".  A comparison of two tuples compares the keys *)
(* and, when they are equal, the results; OptimizedResult defines no       *)
(* ordering, so that comparison raises TypeError unless both are the same  *)
(* object.                                                                 *)
(***************************************************************************)
TupleLt(a, b) ==
    IF a[1] # b[1] THEN (IF a[1] < b[1] THEN "lt" ELSE "ge")
    ELSE IF a[2].obj = b[2].obj THEN "ge"
    ELSE "err"

Swap(heap, i, j) == [heap EXCEPT ![i + 1] = heap[j + 1], ![j + 1] = heap[i + 1]]

RECURSIVE siftdown(_, _, _)
siftdown(heap, startpos, pos) ==
    IF pos > startpos
    THEN LET parentpos == (pos - 1) \div 2
             cmp == TupleLt(heap[pos + 1], heap[parentpos + 1])
         IN  IF cmp = "err" THEN [heap |-> heap, err |-> TRUE]
             ELSE IF cmp = "ge" THEN [heap |-> heap, err |-> FALSE]
             ELSE siftdown(Swap(heap, pos, parentpos), startpos, parentpos)
    ELSE [heap |-> heap, err |-> FALSE]

RECURSIVE siftup(_, _, _)
siftup(heap, startpos, pos) ==
    LET endpos == Len(heap)
        limit  == endpos \div 2
    IN  IF pos < limit
        THEN LET left == 2 * pos + 1
                 cmp  == IF left + 1 < endpos
                         THEN TupleLt(heap[left + 1], heap[left + 2])
                         ELSE "lt"
                 childpos == IF cmp = "ge" THEN left + 1 ELSE left
             IN  IF cmp = "err" THEN [heap |-> heap, err |-> TRUE]
                 ELSE siftup(Swap(heap, childpos, pos), startpos, childpos)
        ELSE siftdown(heap, startpos, pos)

heappush(heap, item) == siftdown(Append(heap, item), 0, Len(heap))

heapreplace(heap, item) == siftup([heap EXCEPT ![1] = item], 0, 0)

(***************************************************************************)
(* TopResultsTracker.add_result (shearch.py:78-103).                       *)
(***************************************************************************)
\* One of the three "keep the top by ..." blocks: push while there is room,
\* else replace the root when the metric beats -heap[0][0].
KeepTop(heap, metric, result) ==
    IF Len(heap) < max_results
    THEN heappush(heap, <<-metric, result>>)
    ELSE IF metric > -heap[1][1]
    THEN heapreplace(heap, <<-metric, result>>)
    ELSE [heap |-> heap, err |-> FALSE]

\* add_result without the test of lines 80-81
add_result_no_id_test(result) ==
    LET w == KeepTop(results_by_winrate, result.win_rate, result)
        p == KeepTop(results_by_pnl, result.total_pnl, result)
        s == KeepTop(results_by_score, Score(result), result)
        raised == w.err \/ p.err \/ s.err
    IN  /\ results_by_winrate' = w.heap
        /\ results_by_pnl' = IF w.err THEN results_by_pnl ELSE p.heap
        /\ results_by_score' = IF w.err \/ p.err THEN results_by_score
                               ELSE s.heap
        /\ all_ids' = IF raised THEN all_ids
                      ELSE all_ids \cup {result.combination_id}
        /\ offered' = offered \cup {result}
        /\ raised_ever' = (raised_ever \/ raised)
        /\ last_call' = [result |-> result,
                         dup |-> result.combination_id \in all_ids,
                         raised |-> raised,
                         winrate |-> results_by_winrate,
                         pnl |-> results_by_pnl, score |-> results_by_score]

add_result(result) ==
    IF result.combination_id \in all_ids
    THEN UNCHANGED <<results_by_winrate, results_by_pnl, results_by_score,
                     all_ids, offered, raised_ever>>
         /\ last_call' = [result |-> result, dup |-> TRUE, raised |-> FALSE,
                          winrate |-> results_by_winrate,
                          pnl |-> results_by_pnl, score |-> results_by_score]
    ELSE LET w == KeepTop(results_by_winrate, result.win_rate, result)
             p == KeepTop(results_by_pnl, result.total_pnl, result)
             s == KeepTop(results_by_score, Score(result), result)
             raised == w.err \/ p.err \/ s.err
         IN  /\ results_by_winrate' = w.heap
             /\ results_by_pnl' = IF w.err THEN results_by_pnl ELSE p.heap
             /\ results_by_score' = IF w.err \/ p.err THEN results_by_score
                                    ELSE s.heap
             /\ all_ids' = IF raised THEN all_ids
                           ELSE all_ids \cup {result.combination_id}
             /\ offered' = offered \cup {result}
             /\ raised_ever' = (raised_ever \/ raised)
             /\ last_call' = [result |-> result, dup |-> FALSE, raised |-> raised,
                              winrate |-> results_by_winrate,
                              pnl |-> results_by_pnl, score |-> results_by_score]

\* A caller passes a freshly built OptimizedResult: any metrics, a new or an
\* already used combination id, and an object identity of its own.
AddResult ==
    /\ ncalls < MaxCalls
    /\ \E wr \in WinRates, pnl \in Pnls, id \in 1..(ncalls + 1) :
          add_result([combination_id |-> id, obj |-> ncalls + 1, win_rate |-> wr,
                      total_pnl |-> pnl, profit_factor |-> ProfitFactorOf(wr)])
          /\ passed_ids' = passed_ids \cup {id}
          /\ id_reused' = (id_reused \/ id \in passed_ids)
    /\ ncalls' = ncalls + 1

NoCall == [result |-> [combination_id |-> 0, obj |-> 0, win_rate |-> 0,
                       total_pnl |-> 0,
                       profit_factor |-> [inf |-> FALSE, val |-> 0]],
           dup |-> FALSE, raised |-> FALSE,
           winrate |-> <<>>, pnl |-> <<>>, score |-> <<>>]

(***************************************************************************)
(* OptimizedParameterSearch.generate_smart_combinations (shearch.py:       *)
(* 151-254).  st_multiplier is in tenths.  A dict is a function from key   *)
(* names to values.                                                        *)
(***************************************************************************)
\* shearch.py:132-147: the keys in declaration order and their value lists
ParameterKeys ==
    <<"ema1_period", "st_period", "st_multiplier", "adx_period",
      "adx_threshold", "rsi_period", "rsi_oversold", "rsi_overbought",
      "supertrend_delay_bars", "expiry_minutes", "max_trades_per_day",
      "min_time_between_trades">>

define_parameter_ranges ==
    [ema1_period |-> <<5, 8, 13, 21>>, st_period |-> <<10, 14, 21>>,
     st_multiplier |-> <<25, 30, 35>>, adx_period |-> <<14, 21>>,
     adx_threshold |-> <<25, 30>>, rsi_period |-> <<14, 21>>,
     rsi_oversold |-> <<30, 35>>, rsi_overbought |-> <<65, 70>>,
     supertrend_delay_bars |-> <<3, 4, 5>>, expiry_minutes |-> <<30, 60, 90>>,
     max_trades_per_day |-> <<10, 14>>, min_time_between_trades |-> <<3, 5>>]

\* shearch.py:204-229
promising_sets ==
    <<[ema1_period |-> 13, st_period |-> 14, st_multiplier |-> 30,
       adx_period |-> 21, adx_threshold |-> 25, rsi_period |-> 14,
       rsi_oversold |-> 30, rsi_overbought |-> 70,
       supertrend_delay_bars |-> 4, expiry_minutes |-> 60,
       max_trades_per_day |-> 10, min_time_between_trades |-> 5],
      [ema1_period |-> 8, st_period |-> 10, st_multiplier |-> 25,
       adx_period |-> 14, adx_threshold |-> 30, rsi_period |-> 14,
       rsi_oversold |-> 35, rsi_overbought |-> 65,
       supertrend_delay_bars |-> 3, expiry_minutes |-> 30,
       max_trades_per_day |-> 14, min_time_between_trades |-> 3],
      [ema1_period |-> 13, st_period |-> 10, st_multiplier |-> 30,
       adx_period |-> 14, adx_threshold |-> 25, rsi_period |-> 21,
       rsi_oversold |-> 35, rsi_overbought |-> 65,
       supertrend_delay_bars |-> 4, expiry_minutes |-> 60,
       max_trades_per_day |-> 10, min_time_between_trades |-> 3]>>

\* The parameters the model enumerates; the other ten are left out of every
\* dict, which keeps the three promising sets pairwise different.
ModelledKeys == <<"st_period", "adx_threshold">>
KeySet(keys) == {keys[i] : i \in DOMAIN keys}
Project(d, keys) == [k \in KeySet(keys) |-> d[k]]

param_ranges == Project(define_parameter_ranges, ModelledKeys)
generate_promising_base ==
    [i \in DOMAIN promising_sets |-> Project(promising_sets[i], ModelledKeys)]

\* shearch.py:157-159
RECURSIVE total_combinations(_, _)
total_combinations(keys, ranges) ==
    IF keys = <<>> THEN 1
    ELSE Len(ranges[Head(keys)]) * total_combinations(Tail(keys), ranges)

Prefixed(v, rest) == [j \in 1..Len(rest) |-> <<v>> \o rest[j]]

RECURSIVE ProductFrom(_, _, _)
ProductFrom(vals, i, rest) ==
    IF i > Len(vals) THEN <<>>
    ELSE Prefixed(vals[i], rest) \o ProductFrom(vals, i + 1, rest)

RECURSIVE ProductLastFirst(_, _)
\* a product in which the first list varies fastest
ProductLastFirst(keys, ranges) ==
    IF keys = <<>> THEN << <<>> >>
    ELSE LET n == Len(keys)
             rest == ProductLastFirst(SubSeq(keys, 1, n - 1), ranges)
             vals == ranges[keys[n]]
             Suffixed(i) == [j \in 1..Len(rest) |-> rest[j] \o <<vals[i]>>]
             RECURSIVE From(_)
             From(i) == IF i > Len(vals) THEN <<>> ELSE Suffixed(i) \o From(i + 1)
         IN  From(1)

RECURSIVE product(_, _)
\* itertools.product(*values): tuples in lexicographic order, the last list
\* varying fastest
product(keys, ranges) ==
    IF keys = <<>> THEN << <<>> >>
    ELSE ProductFrom(ranges[Head(keys)], 1, product(Tail(keys), ranges))

\* {key: value for key, value in zip(keys, combo)}; _convert_value leaves
\* the ints and floats of the lists as they are
ParamSet(keys, combo) ==
    [k \in KeySet(keys) |-> combo[CHOOSE i \in DOMAIN keys : keys[i] = k]]

ParamSets(keys, combinations) ==
    [i \in DOMAIN combinations |-> ParamSet(keys, combinations[i])]

\* shearch.py:180: int(now * 1000) % 2**32.  The clock readings of the model
\* are far below 2**32 (which TLC's integers cannot hold), where the
\* remainder is the reading itself.
ClockSeed(now_ms) == now_ms

RemoveAt(list, i) == SubSeq(list, 1, i - 1) \o SubSeq(list, i + 1, Len(list))

RECURSIVE shuffle(_, _)
\* random.shuffle after random.seed(seed): a permutation fixed by the seed,
\* here the one whose Lehmer code is the seed
shuffle(list, seed) ==
    IF list = <<>> THEN <<>>
    ELSE LET i == (seed % Len(list)) + 1
         IN  <<list[i]>> \o shuffle(RemoveAt(list, i), seed \div Len(list))

SeqToSet(list) == {list[i] : i \in DOMAIN list}

RECURSIVE TakeRandom(_, _, _, _, _)
\* shearch.py:244-252: the loop over the shuffled combinations
TakeRandom(shuffled, keys, count, exclude_set, param_sets) ==
    IF shuffled = <<>> THEN param_sets
    ELSE LET param_dict == ParamSet(keys, Head(shuffled))
         IN  IF param_dict \notin exclude_set
             THEN IF Len(param_sets) + 1 >= count
                  THEN Append(param_sets, param_dict)
                  ELSE TakeRandom(Tail(shuffled), keys, count, exclude_set,
                                  Append(param_sets, param_dict))
             ELSE TakeRandom(Tail(shuffled), keys, count, exclude_set,
                             param_sets)

\* the loop of _generate_random_combinations without the exclude test
generate_random_combinations_no_exclude(keys, ranges, count, exclude, seed) ==
    TakeRandom(shuffle(product(keys, ranges), seed), keys, count, {}, <<>>)

\* shearch.py:232-254, the generator seeded with `seed`
generate_random_combinations(keys, ranges, count, exclude, seed) ==
    TakeRandom(shuffle(product(keys, ranges), seed), keys, count,
               SeqToSet(exclude), <<>>)

\* no call of random.seed
NoSeed == 0 - 1

\* shearch.py:151-200 called at clock time now_ms
generate_smart_combinations(keys, ranges, max_combinations, now_ms) ==
    IF total_combinations(keys, ranges) <= max_combinations
    THEN [seed |-> NoSeed,
          param_sets |-> ParamSets(keys, product(keys, ranges))]
    ELSE LET seed == ClockSeed(now_ms)
             base_combinations == generate_promising_base
             remaining == max_combinations - Len(base_combinations)
         IN  [seed |-> seed,
              param_sets |->
                 IF remaining > 0
                 THEN base_combinations
                      \o generate_random_combinations(keys, ranges, remaining,
                                                      base_combinations, seed)
                 ELSE SubSeq(base_combinations, 1, max_combinations)]

\* the global random generator before anyone seeded it
Unseeded == [seed |-> NoSeed, by |-> "nobody"]
NoGeneration == [called |-> FALSE]

(***************************************************************************)
(* OptimizedParameterSearch.run_optimized_search (shearch.py:264-343) and  *)
(* _show_optimized_results (shearch.py:362-410).  Only what the search     *)
(* reads of a combination is kept: its position in param_sets and what its *)
(* backtest gave.                                                          *)
(***************************************************************************)
\* the defaults of min_trades and min_win_rate
DefaultMinTrades == 10
DefaultMinWinRate == 50
\* the length of the slices [:5] of _show_optimized_results
TopShown == 5

\* What _run_lightweight_backtest can do for combination number id: raise,
\* return None (run_single_backtest caught an error), or return the metrics
\* of the run.  The runs differ in total_pnl; two of them can share a win_rate.
RunResult(trades, wr, pnl) ==
    [kind |-> "result", total_trades |-> trades, win_rate |-> wr,
     total_pnl |-> pnl, profit_factor |-> ProfitFactorOf(wr)]
RunFailure(kind) ==
    [kind |-> kind, total_trades |-> 0, win_rate |-> 0, total_pnl |-> 0,
     profit_factor |-> ProfitFactorOf(0)]
RunOutcomes(id) ==
    {RunFailure("raised"), RunFailure("none"),
     RunResult(DefaultMinTrades - 1, 60, id), RunResult(DefaultMinTrades, 40, id),
     RunResult(DefaultMinTrades, 48 + 2 * id, id), RunResult(DefaultMinTrades, 56, id)}

\* OptimizedResult(result, params, i + 1), shearch.py:32-40
OptimizedResult(result, combo_id, object) ==
    [combination_id |-> combo_id, obj |-> object, win_rate |-> result.win_rate,
     total_pnl |-> result.total_pnl, profit_factor |-> result.profit_factor,
     total_trades |-> result.total_trades]

\* shearch.py:310-316 without the test of the win rate
PassesFiltersTradesOnly(s, result) == result.total_trades >= s.min_trades

\* shearch.py:310-316: the two early-evaluation tests
PassesFilters(s, result) ==
    /\ ~(result.total_trades < s.min_trades)
    /\ ~(result.win_rate < s.min_win_rate)

RECURSIVE InsertDesc(_, _)
\* the pair <<key, r>> goes behind every pair of the sorted list whose key
\* is >= its own
InsertDesc(sorted, pair) ==
    IF sorted = <<>> THEN <<pair>>
    ELSE IF Head(sorted)[1] >= pair[1]
    THEN <<Head(sorted)>> \o InsertDesc(Tail(sorted), pair)
    ELSE <<pair>> \o sorted

RECURSIVE SortPairsDesc(_)
SortPairsDesc(pairs) ==
    IF pairs = <<>> THEN <<>>
    ELSE InsertDesc(SortPairsDesc(SubSeq(pairs, 1, Len(pairs) - 1)),
                    pairs[Len(pairs)])

\* sorted(list, key=..., reverse=True) on the list of pairs <<key(x), x>>:
\* descending, equal keys in list order
SortedDesc(pairs) ==
    LET sorted == SortPairsDesc(pairs)
    IN  [i \in DOMAIN sorted |-> sorted[i][2]]

ResultsOf(heap) == [i \in DOMAIN heap |-> heap[i][2]]
\* key=lambda x: x.win_rate, x.total_pnl, x.score()
KeyWinRate(list) == [i \in DOMAIN list |-> <<list[i].win_rate, list[i]>>]
KeyPnl(list) == [i \in DOMAIN list |-> <<list[i].total_pnl, list[i]>>]
KeyScore(list) == [i \in DOMAIN list |-> <<Score(list[i]), list[i]>>]

\* shearch.py:105-114
get_top_results(by_winrate, by_pnl, by_score) ==
    [by_winrate |-> SortedDesc(KeyWinRate(ResultsOf(by_winrate))),
     by_pnl |-> SortedDesc(KeyPnl(ResultsOf(by_pnl))),
     by_score |-> SortedDesc(KeyScore(ResultsOf(by_score)))]

\* shearch.py:116-120: max() keeps the first of the largest; None is <<>>
get_absolute_best(by_score) ==
    IF by_score = <<>> THEN <<>>
    ELSE LET list == ResultsOf(by_score)
             first == CHOOSE i \in DOMAIN list :
                         /\ \A j \in DOMAIN list : Score(list[j]) <= Score(list[i])
                         /\ \A j \in 1..(i - 1) : Score(list[j]) < Score(list[i])
         IN  list[first]

\* shearch.py:42-53
to_dict(r) ==
    [win_rate |-> r.win_rate, total_pnl |-> r.total_pnl,
     profit_factor |-> r.profit_factor, total_trades |-> r.total_trades,
     combination_id |-> r.combination_id]

FirstOf(list, n) == SubSeq(list, 1, Min(n, Len(list)))
Dicts(list) == [i \in DOMAIN list |-> to_dict(list[i])]

\* shearch.py:362-410
show_optimized_results(by_winrate, by_pnl, by_score) ==
    LET top_results == get_top_results(by_winrate, by_pnl, by_score)
        best_overall == get_absolute_best(by_score)
    IN  [best_overall |-> IF best_overall = <<>> THEN <<>>
                          ELSE to_dict(best_overall),
         top_by_winrate |-> Dicts(FirstOf(top_results.by_winrate, TopShown)),
         top_by_pnl |-> Dicts(FirstOf(top_results.by_pnl, TopShown)),
         top_by_score |-> Dicts(FirstOf(top_results.by_score, TopShown))]

\* run_optimized_search returning the rankings whatever valid_count is
ReturnRankingsAlways(s, by_winrate, by_pnl, by_score) ==
    IF s.total_sets = 0
    THEN [s EXCEPT !.done = TRUE, !.message = "no_combinations"]
    ELSE [s EXCEPT !.done = TRUE, !.message = "best_configurations",
                   !.output = show_optimized_results(by_winrate, by_pnl, by_score)]

\* shearch.py:278-280 and 338-343: what the call prints last and returns;
\* the dict {} is <<>>
Return(s, by_winrate, by_pnl, by_score) ==
    IF s.total_sets = 0
    THEN [s EXCEPT !.done = TRUE, !.message = "no_combinations"]
    ELSE IF s.valid_count > 0
    THEN [s EXCEPT !.done = TRUE, !.message = "best_configurations",
                   !.output = show_optimized_results(by_winrate, by_pnl, by_score)]
    ELSE [s EXCEPT !.done = TRUE, !.message = "no_valid_configurations"]

\* a search about to start: shearch.py:126-130 and 264-289
NewSearch(total_sets, min_trades, min_win_rate) ==
    [total_sets |-> total_sets, min_trades |-> min_trades,
     min_win_rate |-> min_win_rate, i |-> 0, total_tested |-> 0,
     valid_count |-> 0, early_stop_count |-> 0, done |-> FALSE,
     message |-> "none", output |-> <<>>, last |-> "none", passed |-> 0]

NoScore == [called |-> FALSE]

(***************************************************************************)
(* optimize_parameters (main_backtest.py:383-424).  A result is the dict   *)
(* of the analyzer: total_trades, win_rate in whole percent, total_pnl in  *)
(* hundredths; the empty dict (a run without a settled trade) is <<>>, and *)
(* so is None.  st_multiplier is in tenths.  The score is kept as          *)
(* win_rate * max(0, total_pnl) * min(total_trades, 100), which is 10000   *)
(* times the source's.                                                     *)
(***************************************************************************)
\* main_backtest.py:388-400
param_combinations ==
    <<[ema1_period |-> 8, ema2_period |-> 16, ema3_period |-> 24,
       st_multiplier |-> 30, expiry_minutes |-> 5, adx_threshold |-> 25],
      [ema1_period |-> 6, ema2_period |-> 14, ema3_period |-> 22,
       st_multiplier |-> 25, expiry_minutes |-> 3, adx_threshold |-> 20],
      [ema1_period |-> 10, ema2_period |-> 18, ema3_period |-> 26,
       st_multiplier |-> 35, expiry_minutes |-> 7, adx_threshold |-> 30],
      [ema1_period |-> 8, ema2_period |-> 16, ema3_period |-> 24,
       st_multiplier |-> 30, expiry_minutes |-> 10, adx_threshold |-> 25]>>

\* main_backtest.py:402-404
NewOptimizer ==
    [i |-> 0, runs |-> <<>>, best_result |-> <<>>, best_params |-> <<>>,
     best_score |-> 0, done |-> FALSE, returned |-> <<>>]

\* main_backtest.py:411-413
optimize_score(result) ==
    result.win_rate * Max(0, result.total_pnl) * Min(result.total_trades, 100)

\* the loop body keeping a configuration whose score equals the best so far
optimize_iteration_keeps_ties(o, params_i, result) ==
    LET next == [o EXCEPT !.i = @ + 1, !.runs = Append(@, result)]
    IN  IF result # <<>> /\ result.total_trades >= 10
        THEN IF optimize_score(result) >= o.best_score
             THEN [next EXCEPT !.best_score = optimize_score(result),
                               !.best_result = result,
                               !.best_params = params_i]
             ELSE next
        ELSE next

\* main_backtest.py:406-422: one iteration of the loop, the run having
\* returned result
optimize_iteration(o, params_i, result) ==
    LET next == [o EXCEPT !.i = @ + 1, !.runs = Append(@, result)]
    IN  IF result # <<>> /\ result.total_trades >= 10
        THEN IF optimize_score(result) > o.best_score
             THEN [next EXCEPT !.best_score = optimize_score(result),
                               !.best_result = result,
                               !.best_params = params_i]
             ELSE next
        ELSE next

\* main_backtest.py:424
optimize_return(o) ==
    [o EXCEPT !.done = TRUE, !.returned = <<o.best_params, o.best_result>>]

InitTrackerState ==
    /\ results_by_winrate = <<>>
    /\ results_by_pnl = <<>>
    /\ results_by_score = <<>>
    /\ all_ids = {}
    /\ ncalls = 0
    /\ passed_ids = {}
    /\ id_reused = FALSE
    /\ raised_ever = FALSE
    /\ offered = {}
    /\ last_call = NoCall
    /\ rng = Unseeded
    /\ generated = [prev |-> NoGeneration, last |-> NoGeneration]
    /\ optimizer = NewOptimizer

InitTrackerVars ==
    /\ max_results = MaxResults
    /\ search = NewSearch(0, DefaultMinTrades, DefaultMinWinRate)
    /\ InitTrackerState
    /\ scored = NoScore

(***************************************************************************)
(* The data feed.  Each bar carries the candle and the values the          *)
(* backtrader indicators (ATR, EMA, ADX, RSI) hold on it; these are        *)
(* collaborators of the repository and are inputs here.                    *)
(***************************************************************************)
Prices == {2, 4, 6}
AtrValues == {1, 2}

\* high >= close >= low; prices are even, so (high + low) / 2.0 is a whole number
Candles == {c \in [high : Prices, low : Prices, close : Prices] :
                c.low <= c.close /\ c.close <= c.high}

Bar(t, c, atr, ema, adx, rsi) ==
    [time |-> t, high |-> c.high, low |-> c.low, close |-> c.close,
     atr |-> atr, ema1 |-> ema, adx |-> adx, rsi |-> rsi]

NoBar == [time |-> 0, high |-> 0, low |-> 0, close |-> 0,
          atr |-> 0, ema1 |-> 0, adx |-> 0, rsi |-> 0]

\* params of BinaryOptionsStrategy with the periods at their smallest values;
\* payout_rate is in percent
BaseParams ==
    [ema1_period |-> 1, st_period |-> 1, st_multiplier |-> 1,
     supertrend_delay_bars |-> 2, adx_period |-> 1, adx_threshold |-> 30,
     rsi_period |-> 1, rsi_oversold |-> 35, rsi_overbought |-> 65,
     expiry_minutes |-> 10, payout_rate |-> 70, trade_amount |-> 1,
     max_trades_per_day |-> 2, min_time_between_trades |-> 3,
     trading_start_hour |-> 8, trading_end_hour |-> 13,
     timezone_offset |-> -4, enable_time_filter |-> FALSE]

(***************************************************************************)
(* SuperTrend (default.py:11-63, main_backtest.py:14-61).                  *)
(***************************************************************************)
\* saturation value of signal_bars
SignalBarsCap == 999

\* The lines before the first next(): backtrader fills unset line slots with NaN.
NaNLines == [supertrend |-> 0, trend |-> 0, signal_bars |-> 0, nan |-> TRUE]

\* self.atr = bt.indicators.ATR(period): a smoothed average over `period` true
\* ranges, each needing the previous close, so its first value is on bar period + 1.
\* backtrader calls the indicator's next() from that bar on (prenext() before).
ATRMinPeriod(period) == period + 1

\* backtrader forwards the indicator's lines by one slot on every bar, prenext
\* bars included, so len(self) is the number of bars delivered.  next() reads it
\* only in the test len(self) == 1; the model counts it exactly up to one more
\* than the first next() call and keeps it there.
ForwardLen(len, period) ==
    IF len <= ATRMinPeriod(period) THEN len + 1 ELSE len

upper_band(bar, multiplier) == (bar.high + bar.low) \div 2 + multiplier * bar.atr
lower_band(bar, multiplier) == (bar.high + bar.low) \div 2 - multiplier * bar.atr

\* Python's max(a, b) / min(a, b) where b may be NaN: the first argument is
\* kept unless the second compares greater / smaller, and NaN never does.
PyMax(a, b, b_nan) == IF ~b_nan /\ b > a THEN b ELSE a
PyMin(a, b, b_nan) == IF ~b_nan /\ b < a THEN b ELSE a

\* TrendStep that leaves an up trend only on a close strictly below the band
TrendStepStrictFlip(prev, bar, multiplier) ==
    LET upper == upper_band(bar, multiplier)
        lower == lower_band(bar, multiplier)
    IN  IF ~prev.nan /\ prev.trend = 1
        THEN IF bar.close < lower
             THEN [supertrend |-> upper, trend |-> -1]
             ELSE [supertrend |-> PyMax(lower, prev.supertrend, prev.nan),
                   trend |-> 1]
        ELSE IF bar.close >= upper
             THEN [supertrend |-> lower, trend |-> 1]
             ELSE [supertrend |-> PyMin(upper, prev.supertrend, prev.nan),
                   trend |-> -1]

\* TrendStep taking the current band where the source takes the max or the
\* min of it and the previous supertrend
TrendStepNoRatchet(prev, bar, multiplier) ==
    LET upper == upper_band(bar, multiplier)
        lower == lower_band(bar, multiplier)
    IN  IF ~prev.nan /\ prev.trend = 1
        THEN IF bar.close <= lower
             THEN [supertrend |-> upper, trend |-> -1]
             ELSE [supertrend |-> lower, trend |-> 1]
        ELSE IF bar.close >= upper
             THEN [supertrend |-> lower, trend |-> 1]
             ELSE [supertrend |-> upper, trend |-> -1]

\* default.py:38-55: the new supertrend and trend from the previous lines
TrendStep(prev, bar, multiplier) ==
    LET upper == upper_band(bar, multiplier)
        lower == lower_band(bar, multiplier)
    IN  IF ~prev.nan /\ prev.trend = 1
        THEN IF bar.close <= lower
             THEN [supertrend |-> upper, trend |-> -1]
             ELSE [supertrend |-> PyMax(lower, prev.supertrend, prev.nan),
                   trend |-> 1]
        ELSE IF bar.close >= upper
             THEN [supertrend |-> lower, trend |-> 1]
             ELSE [supertrend |-> PyMin(upper, prev.supertrend, prev.nan),
                   trend |-> -1]

\* SignalBars with the cap tested one bar too late
SignalBarsLateCap(prev, current_trend) ==
    IF prev.nan \/ prev.trend # current_trend
    THEN 1
    ELSE IF prev.signal_bars <= SignalBarsCap THEN prev.signal_bars + 1
         ELSE SignalBarsCap

\* default.py:57-63: bars since the trend changed (NaN != x is true)
SignalBars(prev, current_trend) ==
    IF prev.nan \/ prev.trend # current_trend
    THEN 1
    ELSE IF prev.signal_bars < SignalBarsCap THEN prev.signal_bars + 1
         ELSE SignalBarsCap

\* SuperTrend.next with len(self) = len
SuperTrendNext(prev, len, bar, multiplier) ==
    IF len = 1
    THEN [supertrend |-> upper_band(bar, multiplier), trend |-> 1,
          signal_bars |-> 0, nan |-> FALSE]
    ELSE LET line == TrendStep(prev, bar, multiplier)
         IN  [supertrend |-> line.supertrend, trend |-> line.trend,
              signal_bars |-> SignalBars(prev, line.trend), nan |-> FALSE]

\* One bar delivered to the indicator: prenext() (nothing) during the ATR
\* warm-up, next() from the bar on which the ATR has a value.
IndicatorBar(bar) ==
    /\ st_len' = ForwardLen(st_len, params.st_period)
    /\ st' = IF st_len' < ATRMinPeriod(params.st_period)
             THEN st
             ELSE SuperTrendNext(st, st_len', bar, params.st_multiplier)

InitIndicatorVars ==
    /\ candle = NoBar
    /\ st_len = 0
    /\ st = NaNLines

(***************************************************************************)
(* BinaryOptionsStrategy (default.py:65-360).                              *)
(*                                                                         *)
(* `strategy` holds the fields of the object under their names in the      *)
(* source: data_len (len(self.data)), pending_trades, last_trade_time,     *)
(* daily_trades, total_trades, winning_trades, losing_trades, total_pnl    *)
(* (in hundredths), trade_log.  Three more fields record the history of    *)
(* the run and are not program state: entries (every trade opened, in      *)
(* order), events (what happened on the last bar, in order) and outcome    *)
(* (how next() ended on the last bar).                                     *)
(***************************************************************************)
\* last_trade_time = None
NoTime == 0 - 1

\* datetime.hour and datetime.date() of a time in minutes
HourOf(t) == (t \div 60) % 24
DateOf(t) == t \div (24 * 60)

\* min_bars_needed with a buffer of 9 bars
min_bars_needed_buffer_9(p) ==
    Max(Max(p.ema1_period, p.st_period), Max(p.adx_period, p.rsi_period)) + 9

\* default.py:105-110
min_bars_needed(p) ==
    Max(Max(p.ema1_period, p.st_period), Max(p.adx_period, p.rsi_period)) + 10

\* backtrader calls Strategy.next() once every indicator has a value:
\* EMA(period) on bar period, ATR and RSI on bar period + 1, ADX on bar 2 * period.
StratMinPeriod(p) ==
    Max(Max(p.ema1_period, ATRMinPeriod(p.st_period)),
        Max(2 * p.adx_period, p.rsi_period + 1))

\* default.py:141-155
is_trading_time(p, current_time) ==
    IF ~p.enable_time_filter
    THEN TRUE
    ELSE LET cuba_hour == (HourOf(current_time) + p.timezone_offset) % 24
         IN  p.trading_start_hour <= cuba_hour /\ cuba_hour < p.trading_end_hour

\* self.daily_trades[date] of a defaultdict(int)
DailyCount(daily_trades, date) ==
    IF date \in DOMAIN daily_trades THEN daily_trades[date] ELSE 0

\* reading a missing key of a defaultdict stores the default under it
Touch(daily_trades, date) ==
    [d \in DOMAIN daily_trades \cup {date} |-> DailyCount(daily_trades, d)]

\* should_skip_trade letting one trade more than the cap through
should_skip_trade_cap_off_by_one(p, s, current_time, current_date) ==
    \/ DailyCount(s.daily_trades, current_date) > p.max_trades_per_day
    \/ /\ s.last_trade_time # NoTime
       /\ (current_time - s.last_trade_time) * 60 < p.min_time_between_trades * 60

\* should_skip_trade comparing seconds with minutes
should_skip_trade_minutes(p, s, current_time, current_date) ==
    \/ DailyCount(s.daily_trades, current_date) >= p.max_trades_per_day
    \/ /\ s.last_trade_time # NoTime
       /\ (current_time - s.last_trade_time) * 60 < p.min_time_between_trades

\* default.py:256-268 (seconds on both sides of the comparison)
should_skip_trade(p, s, current_time, current_date) ==
    \/ DailyCount(s.daily_trades, current_date) >= p.max_trades_per_day
    \/ /\ s.last_trade_time # NoTime
       /\ (current_time - s.last_trade_time) * 60 < p.min_time_between_trades * 60

\* check_call_conditions accepting an RSI equal to rsi_overbought
check_call_conditions_rsi_le(p, bar, lines) ==
    /\ bar.close > bar.ema1
    /\ ~lines.nan /\ lines.trend = 1
    /\ lines.signal_bars >= p.supertrend_delay_bars
    /\ bar.adx > p.adx_threshold
    /\ bar.rsi <= p.rsi_overbought

\* check_put_conditions accepting an ADX equal to adx_threshold
check_put_conditions_adx_ge(p, bar, lines) ==
    /\ bar.close < bar.ema1
    /\ ~lines.nan /\ lines.trend = -1
    /\ lines.signal_bars >= p.supertrend_delay_bars
    /\ bar.adx >= p.adx_threshold
    /\ bar.rsi > p.rsi_oversold

\* default.py:196-224
check_call_conditions(p, bar, lines) ==
    LET above_emas   == bar.close > bar.ema1
        st_signal    == /\ ~lines.nan
                        /\ lines.trend = 1
                        /\ lines.signal_bars >= p.supertrend_delay_bars
        strong_trend == bar.adx > p.adx_threshold
        rsi_ok       == bar.rsi < p.rsi_overbought
    IN  above_emas /\ st_signal /\ strong_trend /\ rsi_ok

\* default.py:226-254
check_put_conditions(p, bar, lines) ==
    LET below_emas   == bar.close < bar.ema1
        st_signal    == /\ ~lines.nan
                        /\ lines.trend = -1
                        /\ lines.signal_bars >= p.supertrend_delay_bars
        strong_trend == bar.adx > p.adx_threshold
        rsi_ok       == bar.rsi > p.rsi_oversold
    IN  below_emas /\ st_signal /\ strong_trend /\ rsi_ok

\* Won with a tie counted as a win
WonOnTie(trade_type, current_price, entry_price) ==
    IF trade_type = "CALL" THEN current_price >= entry_price
    ELSE current_price <= entry_price

\* default.py:323-327
Won(trade_type, current_price, entry_price) ==
    IF trade_type = "CALL" THEN current_price > entry_price
    ELSE current_price < entry_price

\* default.py:329-335, in hundredths
\* Pnl losing the payout instead of the stake
PnlLosesPayout(p, amount, won) ==
    IF won THEN amount * p.payout_rate ELSE -(amount * p.payout_rate)

Pnl(p, amount, won) ==
    IF won THEN amount * p.payout_rate ELSE -(amount * 100)

\* list.remove(x): drop the first element equal to x
RECURSIVE ListRemove(_, _)
ListRemove(list, x) ==
    IF list = <<>> THEN <<>>
    ELSE IF Head(list) = x THEN Tail(list)
    ELSE <<Head(list)>> \o ListRemove(Tail(list), x)

\* default.py:315-350
settle_trade(p, s, trade, bar) ==
    LET won == Won(trade.type, bar.close, trade.entry_price)
        pnl == Pnl(p, trade.amount, won)
        trade_result == [entry_time |-> trade.entry_time,
                         expiry_time |-> bar.time,
                         type |-> trade.type,
                         entry_price |-> trade.entry_price,
                         exit_price |-> bar.close,
                         result |-> IF won THEN "WIN" ELSE "LOSS",
                         pnl |-> pnl]
    IN  [s EXCEPT !.winning_trades = IF won THEN @ + 1 ELSE @,
                  !.losing_trades = IF won THEN @ ELSE @ + 1,
                  !.total_pnl = @ + pnl,
                  !.total_trades = @ + 1,
                  !.trade_log = Append(@, trade_result),
                  !.events = Append(@, [kind |-> "settle", trade |-> trade])]

\* SettleEach leaving the settled trades in pending_trades
RECURSIVE SettleEachKeep(_, _, _, _)
SettleEachKeep(p, s, expired_trades, bar) ==
    IF expired_trades = <<>> THEN s
    ELSE SettleEachKeep(p, settle_trade(p, s, Head(expired_trades), bar),
                        Tail(expired_trades), bar)

\* default.py:311-313: settle and remove each expired trade in turn
RECURSIVE SettleEach(_, _, _, _)
SettleEach(p, s, expired_trades, bar) ==
    IF expired_trades = <<>> THEN s
    ELSE LET trade == Head(expired_trades)
             settled == settle_trade(p, s, trade, bar)
         IN  SettleEach(p,
                        [settled EXCEPT !.pending_trades = ListRemove(@, trade)],
                        Tail(expired_trades), bar)

\* Expired from the entry of the trade on
ExpiredSinceEntry(current_time, trade) == current_time >= trade.entry_time

\* Expired missing the candle that falls exactly on the expiry time
ExpiredLate(current_time, trade) == current_time > trade.expiry_time

\* default.py:308
Expired(current_time, trade) == current_time >= trade.expiry_time

\* check_expired_trades forgetting the time of the last trade once a trade
\* is settled
check_expired_trades_resets_gap(p, s, bar) ==
    LET IsExpired(trade) == Expired(bar.time, trade)
        expired_trades == SelectSeq(s.pending_trades, IsExpired)
        settled == SettleEach(p, s, expired_trades, bar)
    IN  IF expired_trades = <<>> THEN settled
        ELSE [settled EXCEPT !.last_trade_time = NoTime]

\* default.py:303-313
check_expired_trades(p, s, bar) ==
    LET IsExpired(trade) == Expired(bar.time, trade)
        expired_trades == SelectSeq(s.pending_trades, IsExpired)
    IN  SettleEach(p, s, expired_trades, bar)

\* enter_binary_trade without the test of the expiry time
enter_binary_trade_unchecked_expiry(p, s, trade_type, bar) ==
    LET entry_time == bar.time
        trade_info == [type |-> trade_type, entry_time |-> entry_time,
                       entry_price |-> bar.close,
                       expiry_time |-> entry_time + p.expiry_minutes,
                       amount |-> p.trade_amount]
    IN  [s EXCEPT !.pending_trades = Append(@, trade_info),
                  !.last_trade_time = entry_time,
                  !.daily_trades =
                      [d \in DOMAIN @ \cup {DateOf(entry_time)} |->
                          DailyCount(@, d)
                          + IF d = DateOf(entry_time) THEN 1 ELSE 0],
                  !.entries = Append(@, trade_info),
                  !.events = Append(@, [kind |-> "enter", trade |-> trade_info]),
                  !.outcome = trade_type]

\* enter_binary_trade noting the time of the trade before the test of the
\* expiry time
enter_binary_trade_stamp_first(p, s, trade_type, bar) ==
    LET stamped == [s EXCEPT !.last_trade_time = bar.time]
    IN  IF p.enable_time_filter /\ ~is_trading_time(p, bar.time + p.expiry_minutes)
        THEN [stamped EXCEPT !.outcome = "cancelled"]
        ELSE enter_binary_trade_unchecked_expiry(p, s, trade_type, bar)

\* enter_binary_trade counting the trade on the date of its expiry
enter_binary_trade_expiry_date(p, s, trade_type, bar) ==
    LET opened == enter_binary_trade_unchecked_expiry(p, s, trade_type, bar)
        expiry_date == DateOf(bar.time + p.expiry_minutes)
    IN  IF p.enable_time_filter /\ ~is_trading_time(p, bar.time + p.expiry_minutes)
        THEN [s EXCEPT !.outcome = "cancelled"]
        ELSE [opened EXCEPT !.daily_trades =
                 [d \in DOMAIN s.daily_trades \cup {expiry_date} |->
                     DailyCount(s.daily_trades, d)
                     + IF d = expiry_date THEN 1 ELSE 0]]

\* default.py:270-301
enter_binary_trade(p, s, trade_type, bar) ==
    LET entry_time == bar.time
        expiry_time == entry_time + p.expiry_minutes
        trade_info == [type |-> trade_type, entry_time |-> entry_time,
                       entry_price |-> bar.close, expiry_time |-> expiry_time,
                       amount |-> p.trade_amount]
    IN  IF p.enable_time_filter /\ ~is_trading_time(p, expiry_time)
        THEN [s EXCEPT !.outcome = "cancelled"]
        ELSE [s EXCEPT !.pending_trades = Append(@, trade_info),
                       !.last_trade_time = entry_time,
                       !.daily_trades =
                           [d \in DOMAIN @ \cup {DateOf(entry_time)} |->
                               DailyCount(@, d)
                               + IF d = DateOf(entry_time) THEN 1 ELSE 0],
                       !.entries = Append(@, trade_info),
                       !.events = Append(@, [kind |-> "enter", trade |-> trade_info]),
                       !.outcome = trade_type]

NoTrade == [type |-> "NONE", entry_time |-> NoTime, entry_price |-> 0,
            expiry_time |-> NoTime, amount |-> 0]

\* the history notes that a signal check was evaluated
Noted(s, kind) == [s EXCEPT !.events = Append(@, [kind |-> kind, trade |-> NoTrade])]

\* default.py:186-191 with the elif replaced by a second if
SignalsNoElif(p, s, bar, lines) ==
    LET c == Noted(s, "check_call")
        afterCall == IF check_call_conditions(p, bar, lines)
                     THEN enter_binary_trade(p, c, "CALL", bar)
                     ELSE [c EXCEPT !.outcome = "none"]
        q == Noted(afterCall, "check_put")
    IN  IF check_put_conditions(p, bar, lines)
        THEN enter_binary_trade(p, q, "PUT", bar)
        ELSE q

\* default.py:186-191: CALL is checked first, PUT only if CALL did not fire
Signals(p, s, bar, lines) ==
    LET c == Noted(s, "check_call")
    IN  IF check_call_conditions(p, bar, lines)
        THEN enter_binary_trade(p, c, "CALL", bar)
        ELSE LET q == Noted(c, "check_put")
             IN  IF check_put_conditions(p, bar, lines)
                 THEN enter_binary_trade(p, q, "PUT", bar)
                 ELSE [q EXCEPT !.outcome = "none"]

\* default.py:178-194: what follows the settlement pass
ConsiderEntry(p, s, bar, lines) ==
    IF ~is_trading_time(p, bar.time)
    THEN [s EXCEPT !.outcome = "closed"]
    ELSE LET t == [s EXCEPT !.daily_trades = Touch(@, DateOf(bar.time))]
         IN  IF should_skip_trade(p, s, bar.time, DateOf(bar.time))
             THEN [t EXCEPT !.outcome = "skip"]
             ELSE Signals(p, t, bar, lines)

\* next() with the entry considered before the settlement pass
StrategyNextEntryFirst(p, s, bar, lines) ==
    IF s.data_len < min_bars_needed(p)
    THEN [s EXCEPT !.outcome = "warmup"]
    ELSE LET e == ConsiderEntry(p, s, bar, lines)
         IN  [check_expired_trades(p, e, bar) EXCEPT !.outcome = e.outcome]

\* default.py:157-194: BinaryOptionsStrategy.next on bar `bar`, the indicator
\* lines already computed for it.  The indicators hold floats once backtrader
\* calls next(), so the "is None" test of lines 163-170 never returns.
StrategyNext(p, s, bar, lines) ==
    IF s.data_len < min_bars_needed(p)
    THEN [s EXCEPT !.outcome = "warmup"]
    ELSE ConsiderEntry(p, check_expired_trades(p, s, bar), bar, lines)

\* One bar of the run: backtrader advances the data, runs the indicator, then
\* the strategy (prenext() until every indicator has a value).
StrategyBar(p, s, bar, lines) ==
    LET advanced == [s EXCEPT !.data_len = @ + 1, !.events = <<>>,
                              !.outcome = "prenext"]
    IN  IF advanced.data_len < StratMinPeriod(p)
        THEN advanced
        ELSE StrategyNext(p, advanced, bar, lines)

(***************************************************************************)
(* EnhancedBinaryOptionsStrategy (cuba_trading_hours.py:5-135), a subclass *)
(* of BinaryOptionsStrategy that overrides next().  The candle times are   *)
(* naive UTC datetimes; astimezone() turns them into Havana time, which is *)
(* UTC-4 on the days of the model's feeds (daylight-saving time).  Day 0   *)
(* of the model's calendar is a Monday.                                    *)
(***************************************************************************)
HavanaUtcOffset == 0 - 4
HavanaHour(t) == (HourOf(t) + 24 + HavanaUtcOffset) % 24
HavanaWeekday(t) == ((t + 24 * 60 + HavanaUtcOffset * 60) \div (24 * 60) + 6) % 7

\* cuba_trading_hours.py:5-33
is_good_trading_time_cuba(t) ==
    LET hour == HavanaHour(t)
        weekday == HavanaWeekday(t)
    IN  IF weekday >= 5 THEN FALSE
        ELSE IF hour \in {9, 10, 11, 12} THEN TRUE
        ELSE IF hour \in {4, 5, 6, 7, 13, 14, 15} THEN TRUE
        ELSE FALSE

\* cuba_trading_hours.py:35-52
get_market_session_cuba(t) ==
    LET hour == HavanaHour(t)
    IN  IF 4 <= hour /\ hour <= 8 THEN "LONDON_OPEN"
        ELSE IF 9 <= hour /\ hour <= 12 THEN "LONDON_NY_OVERLAP"
        ELSE IF 13 <= hour /\ hour <= 15 THEN "NY_ACTIVE"
        ELSE IF 16 <= hour /\ hour <= 17 THEN "NY_CLOSE"
        ELSE "LOW_ACTIVITY"

\* cuba_trading_hours.py:87-108
check_call_conditions_enhanced(p, bar, lines, market_session) ==
    LET basic_conditions == check_call_conditions(p, bar, lines)
    IN  IF ~basic_conditions THEN FALSE
        ELSE IF market_session = "LONDON_NY_OVERLAP"
             THEN bar.adx > 30 /\ basic_conditions
        ELSE IF market_session \in {"LONDON_OPEN", "NY_ACTIVE"}
             THEN basic_conditions
        ELSE bar.adx > 35 /\ bar.rsi > 50 /\ basic_conditions

\* cuba_trading_hours.py:110-131
check_put_conditions_enhanced(p, bar, lines, market_session) ==
    LET basic_conditions == check_put_conditions(p, bar, lines)
    IN  IF ~basic_conditions THEN FALSE
        ELSE IF market_session = "LONDON_NY_OVERLAP"
             THEN bar.adx > 30 /\ basic_conditions
        ELSE IF market_session \in {"LONDON_OPEN", "NY_ACTIVE"}
             THEN basic_conditions
        ELSE bar.adx > 35 /\ bar.rsi < 50 /\ basic_conditions

\* cuba_trading_hours.py:81-85
EnhancedSignals(p, s, bar, lines) ==
    LET market_session == get_market_session_cuba(bar.time)
        c == Noted(s, "check_call")
    IN  IF check_call_conditions_enhanced(p, bar, lines, market_session)
        THEN enter_binary_trade(p, c, "CALL", bar)
        ELSE LET q == Noted(c, "check_put")
             IN  IF check_put_conditions_enhanced(p, bar, lines, market_session)
                 THEN enter_binary_trade(p, q, "PUT", bar)
                 ELSE [q EXCEPT !.outcome = "none"]

\* cuba_trading_hours.py:60-85: EnhancedBinaryOptionsStrategy.next.  It has
\* no warm-up test; should_skip_trade reads daily_trades[current_date], which
\* creates the key in the defaultdict.
EnhancedNext(p, s, bar, lines) ==
    IF ~is_good_trading_time_cuba(bar.time)
    THEN [s EXCEPT !.outcome = "closed"]
    ELSE LET e == check_expired_trades(p, s, bar)
             t == [e EXCEPT !.daily_trades = Touch(@, DateOf(bar.time))]
         IN  IF should_skip_trade(p, e, bar.time, DateOf(bar.time))
             THEN [t EXCEPT !.outcome = "skip"]
             ELSE EnhancedSignals(p, t, bar, lines)

\* One bar of a run of the subclass
EnhancedBar(p, s, bar, lines) ==
    LET advanced == [s EXCEPT !.data_len = @ + 1, !.events = <<>>,
                              !.outcome = "prenext"]
    IN  IF advanced.data_len < StratMinPeriod(p)
        THEN advanced
        ELSE EnhancedNext(p, advanced, bar, lines)

NewStrategy ==
    [class |-> "BinaryOptionsStrategy",
     data_len |-> 0, pending_trades |-> <<>>, last_trade_time |-> NoTime,
     daily_trades |-> <<>>, total_trades |-> 0, winning_trades |-> 0,
     losing_trades |-> 0, total_pnl |-> 0, trade_log |-> <<>>,
     entries |-> <<>>, events |-> <<>>, outcome |-> "prenext"]

(***************************************************************************)
(* BinaryOptionsAnalyzer.stop (default.py:368-403, main_backtest.py:       *)
(* 331-347).  A Python dict is a function from key names to values, the    *)
(* empty dict is <<>>.  A float quotient a / b is kept as the pair         *)
(* [num |-> a, den |-> b]; float('inf') is a pair with den = 0.            *)
(***************************************************************************)
Abs(x) == IF x < 0 THEN 0 - x ELSE x

Quotient(a, b) == [num |-> a, den |-> b]
Zero == Quotient(0, 1)
Infinite == Quotient(1, 0)

\* the == of two quotients
SameQuotient(a, b) == a.num * b.den = b.num * a.den

\* stop of default.py with the profit factor taken on the net pnl
stop_net_pnl(p, s) ==
    IF s.total_trades > 0
    THEN LET total_losses == s.losing_trades * p.trade_amount * 100
         IN  [total_trades |-> s.total_trades,
              winning_trades |-> s.winning_trades,
              losing_trades |-> s.losing_trades,
              win_rate |-> Quotient(s.winning_trades * 100, s.total_trades),
              total_pnl |-> s.total_pnl,
              avg_pnl_per_trade |-> Quotient(s.total_pnl, s.total_trades),
              profit_factor |->
                  IF total_losses > 0
                  THEN Quotient(Abs(s.total_pnl), total_losses)
                  ELSE IF s.total_pnl > 0 THEN Infinite ELSE Zero,
              trade_log |-> s.trade_log]
    ELSE [total_trades |-> 0, winning_trades |-> 0, losing_trades |-> 0,
          win_rate |-> Zero, total_pnl |-> 0, avg_pnl_per_trade |-> Zero,
          profit_factor |-> Zero, trade_log |-> <<>>]

\* default.py:368-403; money in hundredths, so trade_amount counts 100 each
stop(p, s) ==
    IF s.total_trades > 0
    THEN LET win_rate == Quotient(s.winning_trades * 100, s.total_trades)
             avg_win == Quotient(s.total_pnl, s.total_trades)
             total_losses == s.losing_trades * p.trade_amount * 100
             profit_factor ==
                 IF total_losses > 0
                 THEN Quotient(Abs(s.total_pnl + total_losses), total_losses)
                 ELSE IF s.total_pnl > 0 THEN Infinite ELSE Zero
         IN  [total_trades |-> s.total_trades,
              winning_trades |-> s.winning_trades,
              losing_trades |-> s.losing_trades,
              win_rate |-> win_rate,
              total_pnl |-> s.total_pnl,
              avg_pnl_per_trade |-> avg_win,
              profit_factor |-> profit_factor,
              trade_log |-> s.trade_log]
    ELSE [total_trades |-> 0, winning_trades |-> 0, losing_trades |-> 0,
          win_rate |-> Zero, total_pnl |-> 0, avg_pnl_per_trade |-> Zero,
          profit_factor |-> Zero, trade_log |-> <<>>]

\* main_backtest.py:331-347: self.results is left as it was (the empty dict
\* of __init__) when no trade settled
main_backtest_stop(p, s, results) ==
    IF s.total_trades > 0
    THEN [total_trades |-> s.total_trades,
          winning_trades |-> s.winning_trades,
          losing_trades |-> s.losing_trades,
          win_rate |-> Quotient(s.winning_trades * 100, s.total_trades),
          total_pnl |-> s.total_pnl,
          avg_pnl_per_trade |-> Quotient(s.total_pnl, s.total_trades),
          profit_factor |->
              IF s.losing_trades > 0
              THEN Quotient(Abs(s.total_pnl),
                            Abs(s.losing_trades * p.trade_amount * 100))
              ELSE Infinite,
          trade_log |-> s.trade_log]
    ELSE results

\* default.py:365-366, main_backtest.py:328-329: self.results = {}
NewAnalyzer == [stopped |-> FALSE, results |-> <<>>, main_results |-> <<>>]

\* backtrader calls stop() on each analyzer once, when the feed is exhausted
Stop(p, s, a) ==
    [stopped |-> TRUE, results |-> stop(p, s),
     main_results |-> main_backtest_stop(p, s, a.main_results)]

InitRunVars ==
    /\ gaps = 0
    /\ strategy = NewStrategy
    /\ analyzer = NewAnalyzer

(***************************************************************************)
(* Specifications.                                                         *)
(***************************************************************************)
\* the tracker alone
InitTracker ==
    /\ InitTrackerVars
    /\ params = BaseParams
    /\ InitIndicatorVars
    /\ InitRunVars

NextTracker ==
    AddResult /\ UNCHANGED <<max_results, genVars, searchVars, feedVars, stVars, runVars>>

SpecTracker == InitTracker /\ [][NextTracker]_vars

\* the indicator alone, fed bar by bar
StPeriods == {1, 2}

InitST ==
    /\ InitTrackerVars
    /\ \E period \in StPeriods :
          params = [BaseParams EXCEPT !.st_period = period]
    /\ InitIndicatorVars
    /\ InitRunVars

NextST ==
    \E c \in Candles, atr \in AtrValues :
        /\ candle' = Bar(0, c, atr, 0, 0, 0)
        /\ IndicatorBar(candle')
        /\ UNCHANGED <<trackerVars, genVars, searchVars, params, runVars>>

SpecST == InitST /\ [][NextST]_vars

\* one backtest run of the strategy over a feed of 5-minute candles
Interval == 5
StartTimes == {0, 23 * 60}
DailyCaps == {1, 2}
MinGaps == {3, 10}

\* candles around a mid price of 4 whose close at an extreme flips the trend
RunCandles == {c \in Candles : c.high = 6 /\ c.low = 2}
\* (ema1, adx, rsi) readings: CALL side, PUT side, ADX at its threshold
Readings == {<<3, 31, 50>>, <<5, 31, 50>>, <<3, 30, 50>>}
\* Bars before min_bars_needed: next() reads neither the indicators nor the
\* clock on them, so they follow at one interval and, but for the last of
\* them (which may carry any reading, a signal included), carry one reading.
WarmupReading == <<3, 30, 50>>

InitRun ==
    /\ InitTrackerVars
    /\ \E cap \in DailyCaps, gap \in MinGaps :
          params = [BaseParams EXCEPT !.max_trades_per_day = cap,
                                      !.min_time_between_trades = gap]
    /\ InitIndicatorVars
    /\ InitRunVars

RunBar ==
    /\ strategy.data_len < MaxBars
    /\ \E c \in RunCandles, r \in Readings, missing \in {0, 1},
          start \in StartTimes :
          /\ strategy.data_len = 0 \/ start = 0
          /\ strategy.data_len + 1 < min_bars_needed(params) => missing = 0
          /\ strategy.data_len + 2 < min_bars_needed(params) => r = WarmupReading
          /\ gaps + missing <= MaxGaps
          /\ gaps' = gaps + missing
          /\ candle' = Bar(IF strategy.data_len = 0 THEN start
                           ELSE candle.time + Interval * (1 + missing),
                           c, 1, r[1], r[2], r[3])
          /\ IndicatorBar(candle')
          /\ strategy' = StrategyBar(params, strategy, candle', st')
    /\ UNCHANGED <<trackerVars, genVars, searchVars, params, analyzer>>

NextRun == RunBar

SpecRun == InitRun /\ [][NextRun]_vars

\* next() on one candle just past the warm-up, for any candle time, any
\* indicator readings and any SuperTrend lines, with the hour filter on or off
EntryTimes == {2 * 60, 11 * 60 + 55, 12 * 60, 16 * 60 + 45, 16 * 60 + 50, 17 * 60}
EntryEmas == {4}
EntryAdx == {30, 31}
EntryRsi == {35, 50, 65}
EntryLines == [supertrend : {4}, trend : {1, -1}, signal_bars : 1..3,
               nan : {FALSE}]

\* the strategy after its warm-up bars, no trade opened yet
ReadyStrategy(p) == [NewStrategy EXCEPT !.data_len = min_bars_needed(p)]

InitEntry ==
    /\ InitTrackerVars
    /\ \E filter \in BOOLEAN :
          params = [BaseParams EXCEPT !.enable_time_filter = filter]
    /\ InitIndicatorVars
    /\ InitRunVars

EntryBar ==
    \E t \in EntryTimes, close \in Prices, ema \in EntryEmas, adx \in EntryAdx,
       rsi \in EntryRsi, lines \in EntryLines :
        /\ candle' = Bar(t, [high |-> close, low |-> close, close |-> close],
                         1, ema, adx, rsi)
        /\ st_len' = ATRMinPeriod(params.st_period) + 1
        /\ st' = lines
        /\ strategy' = StrategyNext(params, ReadyStrategy(params), candle', st')
        /\ UNCHANGED <<trackerVars, genVars, searchVars, params, gaps, analyzer>>

NextEntry == EntryBar

SpecEntry == InitEntry /\ [][NextEntry]_vars

\* the settlements of one run and the analyzers' stop at its end: a CALL
\* entered at price 4 settles on a close below, at or above it
TradeAmounts == {1, 2}
SettledTrade(p) ==
    [type |-> "CALL", entry_time |-> 0, entry_price |-> 4,
     expiry_time |-> p.expiry_minutes, amount |-> p.trade_amount]

InitAnalyzer ==
    /\ InitTrackerVars
    /\ \E amount \in TradeAmounts :
          params = [BaseParams EXCEPT !.trade_amount = amount]
    /\ InitIndicatorVars
    /\ InitRunVars

SettleOne ==
    /\ ~analyzer.stopped
    /\ strategy.total_trades < MaxSettled
    /\ \E close \in Prices :
          /\ candle' = Bar(params.expiry_minutes,
                           [high |-> 6, low |-> 2, close |-> close], 1, 0, 0, 0)
          /\ strategy' = settle_trade(params, [strategy EXCEPT !.events = <<>>],
                                      SettledTrade(params), candle')
    /\ UNCHANGED <<trackerVars, genVars, searchVars, params, stVars, gaps, analyzer>>

StopRun ==
    /\ ~analyzer.stopped
    /\ analyzer' = Stop(params, strategy, analyzer)
    /\ UNCHANGED <<trackerVars, genVars, searchVars, feedVars, stVars, gaps, strategy>>

NextAnalyzer == SettleOne \/ StopRun

SpecAnalyzer == InitAnalyzer /\ [][NextAnalyzer]_vars

\* a run of the strategy over a feed without missing candles up to the end
\* of the feed, which may come after any candle: backtrader then calls stop()
\* on the analyzers.  BinaryOptionsStrategy defines no stop() of its own.
RunFeedBar == ~analyzer.stopped /\ RunBar /\ gaps' = 0

NextRunEnd == RunFeedBar \/ StopRun

SpecRunEnd == InitRun /\ [][NextRunEnd]_vars

\* one run_optimized_search on a fresh OptimizedParameterSearch
SearchCapacities == {MaxResults, TopShown + 1}

InitSearch ==
    /\ \E capacity \in SearchCapacities : max_results = capacity
    /\ \E total_sets \in {0, MaxDiscarded, MaxCombos} :
          search = NewSearch(total_sets, DefaultMinTrades, DefaultMinWinRate)
    /\ InitTrackerState
    /\ scored = NoScore
    /\ params = BaseParams
    /\ InitIndicatorVars
    /\ InitRunVars

\* shearch.py:291-330: one iteration of the loop over param_sets
SearchStep ==
    /\ ~search.done
    /\ search.i < search.total_sets
    /\ \E run \in RunOutcomes(search.i + 1) :
          LET tested == [search EXCEPT !.i = @ + 1, !.total_tested = @ + 1]
              passes == run.kind = "result" /\ PassesFilters(search, run)
          IN  /\ passes \/ search.total_tested - search.valid_count < MaxDiscarded
              /\ IF passes
                 THEN /\ add_result(OptimizedResult(run, search.i + 1, ncalls + 1))
                      /\ ncalls' = ncalls + 1
                      /\ passed_ids' = passed_ids \cup {search.i + 1}
                      /\ id_reused' = (id_reused \/ (search.i + 1) \in passed_ids)
                      /\ search' =
                            [tested EXCEPT
                               !.valid_count = IF last_call'.raised THEN @ ELSE @ + 1,
                               !.passed = @ + 1,
                               !.last = IF last_call'.raised THEN "add_raised"
                                        ELSE "valid"]
                 ELSE /\ UNCHANGED <<results_by_winrate, results_by_pnl,
                                     results_by_score, all_ids, ncalls,
                                     passed_ids, id_reused, raised_ever, offered,
                                     last_call>>
                      /\ search' =
                            IF run.kind = "result"
                            THEN [tested EXCEPT !.early_stop_count = @ + 1,
                                                !.last = "filtered"]
                            ELSE [tested EXCEPT !.last = run.kind]
    /\ UNCHANGED <<max_results, genVars, scored, optimizer, feedVars, stVars,
                   runVars>>

\* shearch.py:332-343: the loop is over, the call returns
SearchReturn ==
    /\ ~search.done
    /\ search.i = search.total_sets
    /\ search' = Return([search EXCEPT !.last = "return"], results_by_winrate,
                        results_by_pnl, results_by_score)
    /\ UNCHANGED <<trackerVars, genVars, scored, optimizer, feedVars, stVars,
                   runVars>>

NextSearch == SearchStep \/ SearchReturn

SpecSearch == InitSearch /\ [][NextSearch]_vars

\* calls of generate_smart_combinations, the caller seeding the global
\* random generator before some of them
CallerSeedValues == {42}

InitGenerate ==
    /\ InitTrackerVars
    /\ params = BaseParams
    /\ InitIndicatorVars
    /\ InitRunVars

\* the caller runs random.seed(seed)
CallerSeeds ==
    /\ \E seed \in CallerSeedValues :
          /\ rng # [seed |-> seed, by |-> "caller"]
          /\ rng' = [seed |-> seed, by |-> "caller"]
    /\ UNCHANGED <<generated, trackerVars, searchVars, feedVars, stVars, runVars>>

Generate ==
    /\ \E max_combinations \in 0..MaxRequested, now_ms \in 0..MaxClock :
          LET g == generate_smart_combinations(ModelledKeys, param_ranges,
                                               max_combinations, now_ms)
          IN  /\ generated' =
                    [prev |-> generated.last,
                     last |-> [called |-> TRUE,
                               max_combinations |-> max_combinations,
                               caller_seed |-> IF rng.by = "caller"
                                               THEN rng.seed ELSE NoSeed,
                               seed |-> g.seed,
                               param_sets |-> g.param_sets]]
              /\ rng' = IF g.seed = NoSeed THEN rng
                        ELSE [seed |-> g.seed, by |-> "clock"]
    /\ UNCHANGED <<trackerVars, searchVars, feedVars, stVars, runVars>>

NextGenerate == CallerSeeds \/ Generate

SpecGenerate == InitGenerate /\ [][NextGenerate]_vars
(***************************************************************************)
(* Properties of TopResultsTracker.                                        *)
(***************************************************************************)
Held(heap) == {heap[i][2] : i \in 1..Len(heap)}

WinRateOf(r) == r.win_rate
PnlOf(r) == r.total_pnl

\* the smallest metric among a non-empty set of results
Smallest(held, Metric(_)) ==
    CHOOSE m \in {Metric(e) : e \in held} : \A e \in held : m <= Metric(e)

\* a tracker is the top K of what was offered to it
IsTopK(heap, Metric(_)) ==
    /\ Len(heap) = Min(MaxResults, Cardinality(offered))
    /\ \A d \in offered \ Held(heap) :
          Held(heap) # {} => Metric(d) <= Smallest(Held(heap), Metric)

\* C1: after any sequence of add_result calls with distinct combination ids
\* (none of which raised), each tracker of capacity K holds exactly
\* min(K, candidates added) entries and no dropped candidate has a metric
\* strictly greater than the smallest metric the tracker holds.
C1_TopKInvariant ==
    (~id_reused /\ ~raised_ever) =>
        /\ IsTopK(results_by_winrate, WinRateOf)
        /\ IsTopK(results_by_pnl, PnlOf)
        /\ IsTopK(results_by_score, Score)

\* what the claimed bounded min-structure does to a full tracker
EvictsSmallest(old, new, r, Metric(_)) ==
    IF Metric(r) > Smallest(Held(old), Metric)
    THEN \E e \in Held(old) :
            /\ Metric(e) = Smallest(Held(old), Metric)
            /\ Held(new) = (Held(old) \ {e}) \cup {r}
    ELSE new = old

\* C2: a call of add_result on full trackers (with an id not yet accepted)
\* completes without error and, in each tracker, evicts exactly the entry
\* with the smallest metric iff the candidate's metric is strictly greater
\* than it, leaving the tracker unchanged otherwise.
C2_EvictsSmallestOnly ==
    [][(/\ ncalls' = ncalls + 1
        /\ ~last_call'.dup
        /\ Len(results_by_winrate) = MaxResults
        /\ Len(results_by_pnl) = MaxResults
        /\ Len(results_by_score) = MaxResults)
       => /\ ~last_call'.raised
          /\ EvictsSmallest(results_by_winrate, results_by_winrate',
                            last_call'.result, WinRateOf)
          /\ EvictsSmallest(results_by_pnl, results_by_pnl',
                            last_call'.result, PnlOf)
          /\ EvictsSmallest(results_by_score, results_by_score',
                            last_call'.result, Score)]_vars

(***************************************************************************)
(* Properties of SuperTrend.                                               *)
(***************************************************************************)
\* this step is a call of SuperTrend.next (not a prenext bar)
NextCalled == st_len' >= ATRMinPeriod(params.st_period)

\* C9: signal_bars never exceeds 999; on a candle whose trend differs from
\* the previous candle's trend it is 1, and on a candle whose trend is
\* unchanged it is the previous value plus 1, staying at 999 once there.
C9_SignalBarsCount ==
    /\ [](st.signal_bars <= SignalBarsCap)
    /\ [][(NextCalled /\ ~st.nan) =>
            IF st'.trend # st.trend
            THEN st'.signal_bars = 1
            ELSE st'.signal_bars = IF st.signal_bars = SignalBarsCap
                                   THEN SignalBarsCap
                                   ELSE st.signal_bars + 1]_vars

\* a trend that flipped to up and then held until the counter saturated
C9_Witness == ~st.nan /\ st.trend = 1 /\ st.signal_bars = SignalBarsCap

\* C10: on the first candle for which the indicator is ready (the first
\* call of next) the lines are trend = up, supertrend = upper band,
\* signal_bars = 0.
C10_FirstReadyState ==
    st_len = ATRMinPeriod(params.st_period) =>
        /\ ~st.nan
        /\ st.trend = 1
        /\ st.supertrend = upper_band(candle, params.st_multiplier)
        /\ st.signal_bars = 0

\* the band and trend the claimed two-state machine moves to from (trend,
\* band) on a candle with the given close and bands
ClaimedTransition(trend, band, close, upper, lower) ==
    IF trend = 1
    THEN IF close <= lower THEN <<-1, upper>> ELSE <<1, Max(lower, band)>>
    ELSE IF close >= upper THEN <<1, lower>> ELSE <<-1, Min(upper, band)>>

\* C11: on every call of next with a previous state (trend, band), the new
\* state is the one function of the previous state and the candle: from up,
\* (down, upper) iff close <= lower, else (up, max(lower, previous band));
\* from down, (up, lower) iff close >= upper, else (down, min(upper,
\* previous band)).
C11_TrendTransition ==
    [][(NextCalled /\ ~st.nan) =>
         /\ st.trend \in {1, -1}
         /\ <<st'.trend, st'.supertrend>> =
               ClaimedTransition(st.trend, st.supertrend, candle'.close,
                                 upper_band(candle', params.st_multiplier),
                                 lower_band(candle', params.st_multiplier))]_vars

\* an up trend just flipped to down by a close exactly on the lower band
C11_Witness ==
    /\ st_len > ATRMinPeriod(params.st_period)
    /\ st.trend = -1 /\ st.signal_bars = 1
    /\ candle.close = lower_band(candle, params.st_multiplier)
    /\ st.supertrend = upper_band(candle, params.st_multiplier)

(***************************************************************************)
(* Properties of the trade lifecycle (BinaryOptionsStrategy).              *)
(***************************************************************************)
Log == strategy.trade_log
Pending == strategy.pending_trades
Entries == strategy.entries
Events == strategy.events

EventsOf(kind) == {i \in 1..Len(Events) : Events[i].kind = kind}

CallWins(r) == r.type = "CALL" /\ r.exit_price > r.entry_price
PutWins(r) == r.type = "PUT" /\ r.exit_price < r.entry_price

\* C3: every settled trade is a WIN iff it is a CALL that closed above or a
\* PUT that closed below its entry price (a tie is a LOSS for both types),
\* with pnl = amount * payout_rate on a WIN and -amount on a LOSS.
C3_SettlementRule ==
    \A i \in 1..Len(Log) :
        LET r == Log[i]
        IN  /\ r.result \in {"WIN", "LOSS"}
            /\ r.result = "WIN" <=> (CallWins(r) \/ PutWins(r))
            /\ r.exit_price = r.entry_price => r.result = "LOSS"
            /\ r.result = "WIN" => r.pnl = params.trade_amount * params.payout_rate
            /\ r.result = "LOSS" => r.pnl = -(params.trade_amount * 100)

\* a run that settled a winning trade and a tied (hence lost) trade
C3_Witness ==
    /\ \E i \in 1..Len(Log) : Log[i].result = "WIN"
    /\ \E i \in 1..Len(Log) :
          Log[i].result = "LOSS" /\ Log[i].exit_price = Log[i].entry_price

\* C4: on every candle the settlement pass comes before the entry: no trade
\* is settled after one was opened on the same candle, and a trade settled
\* on the candle that opens a new trade has the new trade's entry price (the
\* candle's close) as its exit price.
C4_SettleBeforeEntry ==
    /\ \A i \in EventsOf("enter"), j \in EventsOf("settle") : j < i
    /\ \A i \in 1..Len(Log), j \in 1..Len(Entries) :
          Log[i].expiry_time = Entries[j].entry_time
              => Log[i].exit_price = Entries[j].entry_price

\* a candle that both settled an expired trade and opened a new one
C4_Witness == EventsOf("settle") # {} /\ EventsOf("enter") # {}

\* C5: after any candle with timestamp t no pending trade has
\* expiry_time <= t; each trade that expired on it (possibly several) left
\* the pending list and is in the trade log with that candle's close as its
\* exit price, and every opened trade is either pending or logged.
C5_NoExpiredPending ==
    /\ \A i \in 1..Len(Pending) : Pending[i].expiry_time > candle.time
    /\ \A k \in EventsOf("settle") :
          /\ \A i \in 1..Len(Pending) : Pending[i] # Events[k].trade
          /\ \E i \in 1..Len(Log) :
                /\ Log[i].entry_time = Events[k].trade.entry_time
                /\ Log[i].type = Events[k].trade.type
                /\ Log[i].entry_price = Events[k].trade.entry_price
                /\ Log[i].expiry_time = candle.time
                /\ Log[i].exit_price = candle.close
    /\ \A j \in 1..Len(Entries) :
          Entries[j].expiry_time <= candle.time
              => \E i \in 1..Len(Log) : Log[i].entry_time = Entries[j].entry_time
    /\ Len(Log) + Len(Pending) = Len(Entries)

\* two trades settled on one candle
C5_Witness == Cardinality(EventsOf("settle")) >= 2

EntriesOn(date) == {j \in 1..Len(Entries) : DateOf(Entries[j].entry_time) = date}

\* C6: for every calendar date, the number of trades opened on it never
\* exceeds max_trades_per_day.
C6_DailyCap ==
    \A j \in 1..Len(Entries) :
        Cardinality(EntriesOn(DateOf(Entries[j].entry_time)))
            <= params.max_trades_per_day

\* a signal candle refused only because its date already holds the cap, on
\* the day after a day that also held trades
C6_Witness ==
    /\ strategy.outcome = "skip"
    /\ Cardinality(EntriesOn(DateOf(candle.time))) = params.max_trades_per_day
    /\ (candle.time - strategy.last_trade_time) >= params.min_time_between_trades
    /\ check_call_conditions(params, candle, st)
    /\ \E j \in 1..Len(Entries) :
          DateOf(Entries[j].entry_time) < DateOf(candle.time)

\* C7: any two trades opened in one run have entry times at least
\* min_time_between_trades minutes apart.
C7_MinGap ==
    \A i, j \in 1..Len(Entries) :
        i < j => Entries[j].entry_time - Entries[i].entry_time
                    >= params.min_time_between_trades

\* the second trade opened exactly min_time_between_trades after the first,
\* a candle in between having been refused
C7_Witness ==
    /\ Len(Entries) >= 2
    /\ params.min_time_between_trades > Interval
    /\ Entries[2].entry_time - Entries[1].entry_time
           = params.min_time_between_trades

\* C8: at most one trade is opened on a candle; the CALL conditions are
\* checked first and the PUT conditions only if CALL did not fire.
C8_OneSignalPerCandle ==
    /\ Cardinality(EventsOf("enter")) <= 1
    /\ \A i, j \in 1..Len(Entries) :
          i # j => Entries[i].entry_time # Entries[j].entry_time
    /\ \A k \in EventsOf("check_put") :
          /\ \E c \in EventsOf("check_call") : c < k
          /\ \A e \in EventsOf("enter") : k < e /\ Events[e].trade.type = "PUT"

\* a PUT opened after the CALL conditions were checked and failed, in a run
\* that had opened a CALL before
C8_Witness ==
    /\ strategy.outcome = "PUT"
    /\ EventsOf("check_call") # {} /\ EventsOf("check_put") # {}
    /\ \E j \in 1..Len(Entries) : Entries[j].type = "CALL"

(***************************************************************************)
(* Properties of the signal engine and of the hour filter.                 *)
(***************************************************************************)
\* next() reached the signal checks on the last candle
SignalsChecked == EventsOf("check_call") # {}

CallExpected ==
    /\ candle.close > candle.ema1
    /\ st.trend = 1
    /\ st.signal_bars >= params.supertrend_delay_bars
    /\ candle.adx > params.adx_threshold
    /\ candle.rsi < params.rsi_overbought

\* check_call_conditions returned true: the PUT check was not reached
CallFired == SignalsChecked /\ EventsOf("check_put") = {}

\* C12: check_call_conditions is true iff close > EMA, trend = up,
\* signal_bars >= supertrend_delay_bars, ADX > adx_threshold and
\* RSI < rsi_overbought; every CALL trade is opened on a candle with trend up.
C12_CallConditions ==
    /\ SignalsChecked => (CallFired <=> CallExpected)
    /\ \A j \in 1..Len(Entries) :
          (Entries[j].type = "CALL" /\ Entries[j].entry_time = candle.time)
              => st.trend = 1

\* a CALL opened with signal_bars exactly at the delay
C12_Witness ==
    /\ strategy.outcome = "CALL"
    /\ Len(Entries) = 1 /\ Entries[1].type = "CALL"
    /\ st.signal_bars = params.supertrend_delay_bars

PutExpected ==
    /\ candle.close < candle.ema1
    /\ st.trend = -1
    /\ st.signal_bars >= params.supertrend_delay_bars
    /\ candle.adx > params.adx_threshold
    /\ candle.rsi > params.rsi_oversold

\* check_put_conditions was evaluated and returned true
PutFired == EventsOf("check_put") # {} /\ strategy.outcome # "none"

\* C13: check_put_conditions is true iff close < EMA, trend = down,
\* signal_bars >= supertrend_delay_bars, ADX > adx_threshold and
\* RSI > rsi_oversold; every PUT trade is opened on a candle with trend down.
C13_PutConditions ==
    /\ SignalsChecked => (PutFired <=> PutExpected)
    /\ \A j \in 1..Len(Entries) :
          (Entries[j].type = "PUT" /\ Entries[j].entry_time = candle.time)
              => st.trend = -1

\* a PUT opened with signal_bars exactly at the delay
C13_Witness ==
    /\ strategy.outcome = "PUT"
    /\ Len(Entries) = 1 /\ Entries[1].type = "PUT"
    /\ st.signal_bars = params.supertrend_delay_bars

LocalHour(t) == (HourOf(t) + params.timezone_offset) % 24
InWindow(t) ==
    /\ params.trading_start_hour <= LocalHour(t)
    /\ LocalHour(t) < params.trading_end_hour

\* C14: with enable_time_filter on, every opened trade has its entry time
\* and its expiry time at a local hour in [trading_start_hour,
\* trading_end_hour); with the filter off no candle is rejected for its hour.
C14_TimeFilter ==
    /\ params.enable_time_filter =>
          \A j \in 1..Len(Entries) :
              /\ InWindow(Entries[j].entry_time)
              /\ InWindow(Entries[j].expiry_time)
              /\ Entries[j].expiry_time
                    = Entries[j].entry_time + params.expiry_minutes
    /\ ~params.enable_time_filter =>
          strategy.outcome \notin {"closed", "cancelled"}

\* with the filter on, a trade opened in the first admitted local hour
C14_Witness ==
    /\ params.enable_time_filter
    /\ Len(Entries) = 1
    /\ LocalHour(Entries[1].entry_time) = params.trading_start_hour

(***************************************************************************)
(* Properties of the analyzers.                                            *)
(***************************************************************************)
RECURSIVE SumPnl(_, _)
\* the sum of pnl over the entries of a trade log with a result in `kinds`
SumPnl(log, kinds) ==
    IF log = <<>> THEN 0
    ELSE (IF Head(log).result \in kinds THEN Head(log).pnl ELSE 0)
         + SumPnl(Tail(log), kinds)

CountOf(log, kind) == Cardinality({i \in 1..Len(log) : log[i].result = kind})

\* a metrics record of a run without trades
ZeroMetrics(r) ==
    /\ {"total_trades", "win_rate", "avg_pnl_per_trade", "profit_factor"}
          \subseteq DOMAIN r
    /\ r.total_trades = 0
    /\ SameQuotient(r.win_rate, Zero) /\ r.win_rate.den # 0
    /\ SameQuotient(r.avg_pnl_per_trade, Zero) /\ r.avg_pnl_per_trade.den # 0
    /\ SameQuotient(r.profit_factor, Zero) /\ r.profit_factor.den # 0

\* C15: a run in which no trade settled yields, from the analyzer of
\* default.py and from the analyzer of main_backtest.py, a record with
\* total_trades = 0, win_rate = 0, avg_pnl_per_trade = 0, profit_factor = 0.
C15_ZeroTradeRun ==
    (analyzer.stopped /\ Len(Log) = 0) =>
        /\ ZeroMetrics(analyzer.results)
        /\ ZeroMetrics(analyzer.main_results)

\* C16: after a run with at least one settled trade, default.py's analyzer
\* reports profit_factor = (sum of WIN pnl) / |sum of LOSS pnl| when there
\* is a loss and infinity when there are wins and no loss,
\* win_rate = 100 * wins / trades and avg_pnl_per_trade = total pnl / trades.
C16_DefaultMetrics ==
    (analyzer.stopped /\ Len(Log) > 0) =>
        LET r == analyzer.results
            wins == SumPnl(Log, {"WIN"})
            losses == SumPnl(Log, {"LOSS"})
        IN  /\ CountOf(Log, "LOSS") > 0 =>
                  /\ r.profit_factor.den # 0
                  /\ SameQuotient(r.profit_factor, Quotient(wins, Abs(losses)))
            /\ (CountOf(Log, "LOSS") = 0 /\ CountOf(Log, "WIN") > 0) =>
                  r.profit_factor = Infinite
            /\ r.win_rate.den # 0
            /\ SameQuotient(r.win_rate,
                            Quotient(100 * CountOf(Log, "WIN"), Len(Log)))
            /\ r.avg_pnl_per_trade.den # 0
            /\ SameQuotient(r.avg_pnl_per_trade,
                            Quotient(SumPnl(Log, {"WIN", "LOSS"}), Len(Log)))

\* the analyzer stopped after a run with two wins and two losses
C16_Witness ==
    /\ analyzer.stopped
    /\ CountOf(Log, "WIN") = 2 /\ CountOf(Log, "LOSS") = 2
    /\ analyzer.results.profit_factor.den # 0

\* C17: whenever at least one trade was lost, main_backtest.py's analyzer
\* reports the same profit_factor as default.py's analyzer, which is
\* (sum of WIN pnl) / |sum of LOSS pnl|.
C17_SameProfitFactor ==
    (analyzer.stopped /\ CountOf(Log, "LOSS") > 0) =>
        /\ analyzer.main_results.profit_factor.den # 0
        /\ SameQuotient(analyzer.main_results.profit_factor,
                        analyzer.results.profit_factor)
        /\ SameQuotient(analyzer.main_results.profit_factor,
                        Quotient(SumPnl(Log, {"WIN"}),
                                 Abs(SumPnl(Log, {"LOSS"}))))

(***************************************************************************)
(* Properties of generate_smart_combinations.                              *)
(***************************************************************************)
\* the cartesian product of the value lists, as a set of dicts
CartesianProduct(keys, ranges) ==
    {d \in [KeySet(keys) -> UNION {SeqToSet(ranges[k]) : k \in KeySet(keys)}] :
        \A k \in KeySet(keys) : d[k] \in SeqToSet(ranges[k])}

PositionIn(list, v) == CHOOSE i \in DOMAIN list : list[i] = v

\* a comes before b in the lexicographic order of the declared lists
LexBefore(keys, ranges, a, b) ==
    \E i \in DOMAIN keys :
        /\ PositionIn(ranges[keys[i]], a[keys[i]])
              < PositionIn(ranges[keys[i]], b[keys[i]])
        /\ \A j \in 1..(i - 1) : a[keys[j]] = b[keys[j]]

PairwiseDistinct(list) ==
    \A i, j \in DOMAIN list : i # j => list[i] # list[j]

T == Cardinality(CartesianProduct(ModelledKeys, param_ranges))
Exhaustive(call) == call.called /\ T <= call.max_combinations
Sampled(call) == call.called /\ T > call.max_combinations

\* C18: when the product size T is <= max_combinations the call returns
\* exactly T pairwise distinct combinations, in lexicographic order of the
\* declared lists, and the same list on every call.
C18_ExhaustiveMode ==
    LET list == generated.last.param_sets
    IN  /\ Exhaustive(generated.last) =>
              /\ Len(list) = T
              /\ PairwiseDistinct(list)
              /\ SeqToSet(list) = CartesianProduct(ModelledKeys, param_ranges)
              /\ \A i, j \in DOMAIN list :
                    i < j => LexBefore(ModelledKeys, param_ranges,
                                       list[i], list[j])
        /\ (Exhaustive(generated.last) /\ Exhaustive(generated.prev)) =>
              generated.prev.param_sets = list

\* two exhaustive calls, with max_combinations = T and above it
C18_Witness ==
    /\ Exhaustive(generated.last) /\ Exhaustive(generated.prev)
    /\ generated.last.max_combinations = T
    /\ generated.prev.max_combinations > T

\* C19: when T > max_combinations the call returns exactly
\* max_combinations combinations, pairwise distinct, each a member of the
\* cartesian product of the parameter lists (the promising sets of the
\* source being pairwise distinct members of the full product).
C19_SampledMode ==
    /\ Sampled(generated.last) =>
          LET list == generated.last.param_sets
          IN  /\ Len(list) = generated.last.max_combinations
              /\ PairwiseDistinct(list)
              /\ SeqToSet(list) \subseteq
                    CartesianProduct(ModelledKeys, param_ranges)
    /\ PairwiseDistinct(promising_sets)
    /\ \A i \in DOMAIN promising_sets, k \in KeySet(ParameterKeys) :
          promising_sets[i][k] \in SeqToSet(define_parameter_ranges[k])

\* a sampled call for T - 1 combinations whose shuffle put a promising set
\* first, which the random part had to pass over
C19_Witness ==
    /\ Sampled(generated.last)
    /\ generated.last.max_combinations = T - 1
    /\ ParamSet(ModelledKeys,
                shuffle(product(ModelledKeys, param_ranges),
                        generated.last.seed)[1])
          \in SeqToSet(generate_promising_base)

CallerSeeded(call) == call.called /\ call.caller_seed # NoSeed

\* C20: two sampled calls made under the same caller-supplied seed with the
\* same max_combinations return the same list, and a call under a
\* caller-supplied seed draws from that seed, not from the clock.
C20_SeedReproducible ==
    /\ (Sampled(generated.last) /\ CallerSeeded(generated.last)) =>
          generated.last.seed = generated.last.caller_seed
    /\ ( /\ Sampled(generated.last) /\ Sampled(generated.prev)
         /\ CallerSeeded(generated.last) /\ CallerSeeded(generated.prev)
         /\ generated.last.caller_seed = generated.prev.caller_seed
         /\ generated.last.max_combinations = generated.prev.max_combinations )
        => generated.last.param_sets = generated.prev.param_sets

(***************************************************************************)
(* A run of either strategy class with the trading-hours filter in play:   *)
(* BinaryOptionsStrategy with enable_time_filter on and its window of      *)
(* 08:00-12:59 Cuba time (12:00-16:59 UTC), over candles that lead up to   *)
(* 17:00 UTC; EnhancedBinaryOptionsStrategy over candles that lead up to   *)
(* 20:00 UTC on a Monday (16:00 in Havana, the end of its good hours) or   *)
(* that fall on a Saturday.                                                *)
(***************************************************************************)
MaxHourBars == 13
HourRuns ==
    {[class |-> "BinaryOptionsStrategy", filter |-> TRUE],
     [class |-> "EnhancedBinaryOptionsStrategy", filter |-> FALSE]}
\* the time of the first candle of the feed
HourStarts(class) ==
    IF class = "BinaryOptionsStrategy" THEN {15 * 60 + 55}
    ELSE {19 * 60 + 30, 5 * 24 * 60 + 19 * 60 + 30}

InitHours ==
    /\ InitTrackerVars
    /\ InitIndicatorVars
    /\ \E run \in HourRuns :
          /\ params = [BaseParams EXCEPT !.enable_time_filter = run.filter]
          /\ strategy = [NewStrategy EXCEPT !.class = run.class]
    /\ gaps = 0
    /\ analyzer = NewAnalyzer

HoursBar ==
    /\ strategy.data_len < MaxHourBars
    /\ \E c \in RunCandles, r \in Readings,
          time \in (IF strategy.data_len = 0 THEN HourStarts(strategy.class)
                    ELSE {candle.time + Interval}) :
          /\ (strategy.class = "BinaryOptionsStrategy"
                /\ strategy.data_len + 2 < min_bars_needed(params))
                => r = WarmupReading
          /\ candle' = Bar(time, c, 1, r[1], r[2], r[3])
          /\ IndicatorBar(candle')
          /\ strategy' =
                IF strategy.class = "EnhancedBinaryOptionsStrategy"
                THEN EnhancedBar(params, strategy, candle', st')
                ELSE StrategyBar(params, strategy, candle', st')
    /\ UNCHANGED <<trackerVars, genVars, searchVars, params, gaps, analyzer>>

NextHours == HoursBar

SpecHours == InitHours /\ [][NextHours]_vars

(***************************************************************************)
(* optimize_parameters over the results its four runs can give: no settled *)
(* trade, fewer than 10 trades, a loss, and profitable runs of which two   *)
(* have the same score and one has more than 100 trades.                   *)
(***************************************************************************)
OptimizeResults ==
    {<<>>,
     [total_trades |-> 9, win_rate |-> 100, total_pnl |-> 500],
     [total_trades |-> 10, win_rate |-> 60, total_pnl |-> 0 - 100],
     [total_trades |-> 10, win_rate |-> 60, total_pnl |-> 200],
     [total_trades |-> 20, win_rate |-> 60, total_pnl |-> 100],
     [total_trades |-> 150, win_rate |-> 50, total_pnl |-> 100]}

InitOptimize ==
    /\ InitTrackerVars
    /\ params = BaseParams
    /\ InitIndicatorVars
    /\ InitRunVars

OptimizeIteration ==
    /\ ~optimizer.done
    /\ optimizer.i < Len(param_combinations)
    /\ \E result \in OptimizeResults :
          optimizer' = optimize_iteration(optimizer,
                                         param_combinations[optimizer.i + 1],
                                         result)
    /\ UNCHANGED <<trackerVars, genVars, search, scored, feedVars, stVars,
                   runVars>>

OptimizeReturn ==
    /\ ~optimizer.done
    /\ optimizer.i = Len(param_combinations)
    /\ optimizer' = optimize_return(optimizer)
    /\ UNCHANGED <<trackerVars, genVars, search, scored, feedVars, stVars,
                   runVars>>

NextOptimize == OptimizeIteration \/ OptimizeReturn

SpecOptimize == InitOptimize /\ [][NextOptimize]_vars

(***************************************************************************)
(* OptimizedResult.score() alone: a result with metrics drawn from the     *)
(* values run_single_backtest can report (a win rate in 0..100, any total  *)
(* P&L, a profit factor that is a non-negative number or infinite) is      *)
(* scored once.                                                            *)
(***************************************************************************)
ScoreWinRates == {0, 25, 50, 100}
ScorePnls == {0 - 150, 0 - 100, 0 - 50, 0, 50, 100, 150}
ScoreProfitFactors ==
    {[inf |-> TRUE, val |-> 0]} \cup {[inf |-> FALSE, val |-> v] : v \in {0, 1, 2, 5, 7}}

InitScore ==
    /\ \E wr \in ScoreWinRates, pnl \in ScorePnls, pf \in ScoreProfitFactors :
          scored = [called |-> FALSE,
                    result |-> [win_rate |-> wr, total_pnl |-> pnl,
                                profit_factor |-> pf]]
    /\ max_results = MaxResults
    /\ search = NewSearch(0, DefaultMinTrades, DefaultMinWinRate)
    /\ InitTrackerState
    /\ params = BaseParams
    /\ InitIndicatorVars
    /\ InitRunVars

ScoreResult ==
    /\ ~scored.called
    /\ scored' = [scored EXCEPT !.called = TRUE] @@ [score |-> Score(scored.result)]
    /\ UNCHANGED <<trackerVars, genVars, search, optimizer, feedVars, stVars,
                   runVars>>

NextScore == ScoreResult

SpecScore == InitScore /\ [][NextScore]_vars

(***************************************************************************)
(* Properties of run_optimized_search.                                     *)
(***************************************************************************)
\* this step is an iteration whose backtest raised or returned nothing
ErroredStep == search'.i = search.i + 1 /\ search'.last \in {"raised", "none"}

\* the counters a search keeps besides the count of all combinations tested
Tallies(s) == <<s.valid_count, s.early_stop_count>>

\* C21: a combination whose run raises or returns no result leaves the
\* three trackers unchanged, is counted in a tally of the search, and does
\* not stop the search: the call returns only after every combination.
C21_ErroredRunSkipped ==
    [][/\ ErroredStep =>
            /\ UNCHANGED <<results_by_winrate, results_by_pnl,
                           results_by_score, all_ids>>
            /\ Tallies(search') # Tallies(search)
            /\ ~search'.done
       /\ (search'.done /\ ~search.done) =>
            search'.total_tested = search'.total_sets]_vars

AllHeld == Held(results_by_winrate) \cup Held(results_by_pnl)
               \cup Held(results_by_score)

MeetsFilters(r) ==
    r.total_trades >= search.min_trades /\ r.win_rate >= search.min_win_rate

\* C22: every result held in a tracker has total_trades >= min_trades and
\* win_rate >= min_win_rate, and nothing that fails a filter is ever passed
\* to add_result.
C22_FiltersHold ==
    /\ \A r \in AllHeld : MeetsFilters(r)
    /\ \A r \in offered : MeetsFilters(r)
    /\ ncalls = search.passed
    /\ search.early_stop_count + search.passed <= search.total_tested

\* a search that discarded a run on a filter and holds a result exactly at
\* both thresholds
C22_Witness ==
    /\ search.early_stop_count > 0
    /\ \E r \in AllHeld :
          r.win_rate = search.min_win_rate /\ r.total_trades = search.min_trades

IdsOf(list) == {list[i].combination_id : i \in DOMAIN list}

\* list is the whole of the tracker
Whole(list, heap) ==
    Len(list) = Len(heap) /\ IdsOf(list) = IdsOf(ResultsOf(heap))

Descending(values) ==
    \A i, j \in DOMAIN values : i < j => values[i] >= values[j]

\* C23: the returned dict holds, for each ranking, the whole retained set
\* of its tracker in descending order of the metric, and the best result by
\* composite score.
C23_OutputRankings ==
    (search.done /\ search.message = "best_configurations") =>
        /\ Whole(search.output.top_by_winrate, results_by_winrate)
        /\ Whole(search.output.top_by_pnl, results_by_pnl)
        /\ Whole(search.output.top_by_score, results_by_score)
        /\ Descending([i \in DOMAIN search.output.top_by_winrate |->
                          search.output.top_by_winrate[i].win_rate])
        /\ Descending([i \in DOMAIN search.output.top_by_pnl |->
                          search.output.top_by_pnl[i].total_pnl])
        /\ Descending([i \in DOMAIN search.output.top_by_score |->
                          Score(search.output.top_by_score[i])])
        /\ \E r \in Held(results_by_score) :
              /\ search.output.best_overall = to_dict(r)
              /\ \A e \in Held(results_by_score) : Score(e) <= Score(r)

\* C24: when no combination passes the filters the call returns the empty
\* dict, having printed that there is no valid configuration.
C24_NoQualifyingResults ==
    (search.done /\ search.passed = 0) =>
        /\ search.output = <<>>
        /\ search.message \in {"no_valid_configurations", "no_combinations"}
        /\ Len(results_by_winrate) = 0

\* a search whose combinations were all discarded, one of them on a filter
C24_Witness ==
    /\ search.done /\ search.passed = 0
    /\ search.total_tested = search.total_sets /\ search.total_sets > 0
    /\ search.early_stop_count > 0
    /\ search.message = "no_valid_configurations"

(***************************************************************************)
(* Properties of the warm-up of BinaryOptionsStrategy.next.                *)
(***************************************************************************)
LargestPeriod(p) ==
    Max(Max(p.ema1_period, p.st_period), Max(p.adx_period, p.rsi_period))

\* the candle just delivered is one of the first max(periods) + 9
WarmingUp == strategy.data_len <= LargestPeriod(params) + 9

\* C26: no trade opens on the first max(periods) + 9 candles of a run; on
\* them next() returns without a signal check and without an error.
C26_NoTradeInWarmup ==
    WarmingUp =>
        /\ strategy.entries = <<>>
        /\ strategy.pending_trades = <<>>
        /\ strategy.events = <<>>
        /\ strategy.outcome \in {"prenext", "warmup"}

\* the last warm-up candle carries a CALL or PUT signal inside the trading
\* day and nothing opened on it
C26_Witness ==
    /\ strategy.data_len = LargestPeriod(params) + 9
    /\ check_call_conditions(params, candle, st)
          \/ check_put_conditions(params, candle, st)
    /\ ~should_skip_trade(params, strategy, candle.time, DateOf(candle.time))
    /\ strategy.entries = <<>>

(***************************************************************************)
(* Properties of settlement and entry in BinaryOptionsStrategy.            *)
(***************************************************************************)
\* the records the step appended to trade_log
NewRecords ==
    {strategy'.trade_log[i] :
        i \in (Len(strategy.trade_log) + 1)..Len(strategy'.trade_log)}

\* C27: every settled trade is recorded with expiry_time = entry_time +
\* expiry_minutes and with exit_price the close of the candle at that time.
C27_RecordedExpiry ==
    [][\A rec \in NewRecords :
          /\ rec.expiry_time = rec.entry_time + params.expiry_minutes
          /\ candle'.time = rec.expiry_time
          /\ rec.exit_price = candle'.close]_vars

\* the pending trades of the run that the candle at current_time leaves open
StillOpen(current_time) ==
    LET Open(trade) == trade.expiry_time > current_time
    IN  SelectSeq(strategy.pending_trades, Open)

SameCounters(before, after) ==
    \A d \in DOMAIN before \cup DOMAIN after :
        DailyCount(after, d) = DailyCount(before, d)

\* C28: EnhancedBinaryOptionsStrategy.next runs the settlement pass on every
\* candle, those the Cuba hours filter rejects included: once next() has
\* run on a candle no pending trade has an expiry_time <= the candle's time.
C28_EnhancedSettlesEveryCandle ==
    (strategy.class = "EnhancedBinaryOptionsStrategy"
       /\ strategy.data_len >= StratMinPeriod(params)) =>
        \A i \in DOMAIN strategy.pending_trades :
            strategy.pending_trades[i].expiry_time > candle.time

\* C29: a signal whose trade is discarded because its expiry falls outside
\* the trading window leaves the pending trades, last_trade_time and the
\* per-date counters as they were.
C29_DiscardedTradeFrame ==
    [][strategy'.outcome = "cancelled" =>
          /\ strategy'.pending_trades = StillOpen(candle'.time)
          /\ strategy'.last_trade_time = strategy.last_trade_time
          /\ SameCounters(strategy.daily_trades, strategy'.daily_trades)
          /\ strategy'.entries = strategy.entries]_vars

\* a signal was discarded while a trade opened earlier was still pending
C29_Witness ==
    /\ strategy.outcome = "cancelled"
    /\ params.enable_time_filter
    /\ is_trading_time(params, candle.time)
    /\ ~is_trading_time(params, candle.time + params.expiry_minutes)
    /\ strategy.pending_trades # <<>>
    /\ strategy.last_trade_time # NoTime
    /\ strategy.last_trade_time < candle.time

\* C30: a trade opened on a candle adds exactly one pending trade, with
\* entry_time the candle's time, entry_price its close, expiry_time =
\* entry_time + expiry_minutes and amount = trade_amount; last_trade_time
\* becomes the candle's time and only the counter of the entry's date
\* increases, by 1.
C30_OpenedTradeEffect ==
    [][strategy'.outcome \in {"CALL", "PUT"} =>
          LET opened == [type |-> strategy'.outcome,
                         entry_time |-> candle'.time,
                         entry_price |-> candle'.close,
                         expiry_time |-> candle'.time + params.expiry_minutes,
                         amount |-> params.trade_amount]
              entry_date == candle'.time \div (24 * 60)
          IN  /\ strategy'.pending_trades = Append(StillOpen(candle'.time), opened)
              /\ strategy'.last_trade_time = candle'.time
              /\ \A d \in DOMAIN strategy.daily_trades
                          \cup DOMAIN strategy'.daily_trades :
                    DailyCount(strategy'.daily_trades, d) =
                        DailyCount(strategy.daily_trades, d)
                        + (IF d = entry_date THEN 1 ELSE 0)
              /\ entry_date \in DOMAIN strategy'.daily_trades]_vars

\* a trade opened just before midnight, expiring on the next date, while an
\* earlier trade is still pending
C30_Witness ==
    /\ strategy.outcome \in {"CALL", "PUT"}
    /\ DateOf(candle.time + params.expiry_minutes) > DateOf(candle.time)
    /\ Len(strategy.pending_trades) = 2
    /\ strategy.pending_trades[2].entry_time = candle.time
    /\ DailyCount(strategy.daily_trades, DateOf(candle.time)) = 2

(***************************************************************************)
(* Properties of score().                                                  *)
(***************************************************************************)
Clip(x, lo, hi) == IF x < lo THEN lo ELSE IF x > hi THEN hi ELSE x

\* 0.3*clip(wr/100, 0, 1) + 0.4*clip(pnl/100, -1, 1) + 0.3*clip(pf/5, 0, 1),
\* an infinite profit factor counting as 1; in thousandths
ClaimedScore(r) ==
    (3 * Clip(10 * r.win_rate, 0, 1000)
       + 4 * Clip(10 * r.total_pnl, 0 - 1000, 1000)
       + 3 * (IF r.profit_factor.inf THEN 1000
              ELSE Clip(200 * r.profit_factor.val, 0, 1000))) \div 10

\* C25: the composite score is 0.3*clip(win_rate/100, 0, 1)
\* + 0.4*clip(total_pnl/100, -1, 1) + 0.3*clip(profit_factor/5, 0, 1), with an
\* infinite profit factor normalised to 1, and so lies in [-0.4, 1.0].
C25_ScoreFormula ==
    scored.called =>
        /\ scored.score = ClaimedScore(scored.result)
        /\ scored.score >= 0 - 400 /\ scored.score <= 1000

\* a scored result whose P&L is below -100, whose profit factor is above 5
\* and whose win rate is 100: each term is at a limit of its clip
C25_Witness ==
    /\ scored.called
    /\ scored.result.total_pnl < 0 - 100
    /\ scored.result.profit_factor.val > 5
    /\ scored.result.win_rate = 100
    /\ scored.score = 200

(***************************************************************************)
(* Properties of the trade accounting of a run.                            *)
(***************************************************************************)
RECURSIVE SumCounters(_)
SumCounters(daily_trades) ==
    IF DOMAIN daily_trades = {} THEN 0
    ELSE LET d == CHOOSE x \in DOMAIN daily_trades : TRUE
         IN  daily_trades[d]
             + SumCounters([x \in DOMAIN daily_trades \ {d} |-> daily_trades[x]])

\* C33: at every point of a run the per-date counters add up to
\* total_trades + the number of pending trades, and the trade log has
\* total_trades records; the trades pending when the feed ends stay pending
\* and the metrics of the run count the settled trades only.
C33_TradeAccounting ==
    /\ SumCounters(strategy.daily_trades)
          = strategy.total_trades + Len(strategy.pending_trades)
    /\ Len(strategy.trade_log) = strategy.total_trades
    /\ Len(strategy.entries) = SumCounters(strategy.daily_trades)
    /\ analyzer.stopped =>
          /\ analyzer.results.total_trades = Len(strategy.trade_log)
          /\ analyzer.results.trade_log = strategy.trade_log
          /\ analyzer.results.total_pnl
                = SumPnl(strategy.trade_log, {"WIN", "LOSS"})
          /\ analyzer.results.winning_trades + analyzer.results.losing_trades
                = Len(strategy.entries) - Len(strategy.pending_trades)

\* the feed ended with one trade settled and another still pending
C33_Witness ==
    /\ analyzer.stopped
    /\ strategy.pending_trades # <<>>
    /\ strategy.total_trades >= 1
    /\ Cardinality(DOMAIN strategy.daily_trades) = 2

\* C34: at every point of a run total_trades = winning_trades +
\* losing_trades and total_pnl = winning_trades * trade_amount * payout_rate
\* - losing_trades * trade_amount (in hundredths, payout_rate in percent):
\* the metrics kept as trades settle are those recomputed from the trade log.
C34_IncrementalMetrics ==
    /\ strategy.total_trades = strategy.winning_trades + strategy.losing_trades
    /\ strategy.total_pnl =
          strategy.winning_trades * params.trade_amount * params.payout_rate
          - strategy.losing_trades * params.trade_amount * 100
    /\ strategy.total_trades = Len(strategy.trade_log)
    /\ strategy.winning_trades = CountOf(strategy.trade_log, "WIN")
    /\ strategy.losing_trades = CountOf(strategy.trade_log, "LOSS")
    /\ strategy.total_pnl = SumPnl(strategy.trade_log, {"WIN", "LOSS"})

\* a run with a won and a lost trade settled and a third one pending
C34_Witness ==
    /\ strategy.winning_trades >= 1
    /\ strategy.losing_trades >= 1
    /\ strategy.pending_trades # <<>>

\* the opened trade a record of the trade log was made from
OpenedAs(rec) ==
    {i \in DOMAIN strategy.entries :
        /\ strategy.entries[i].entry_time = rec.entry_time
        /\ strategy.entries[i].type = rec.type
        /\ strategy.entries[i].entry_price = rec.entry_price}

\* C35: every opened trade is settled at most once and never before its
\* expiry: the records of the trade log come from distinct opened trades,
\* and each was made on a candle whose time is >= entry_time + expiry_minutes.
C35_SettledOnceAfterExpiry ==
    /\ [](/\ \A i \in DOMAIN strategy.trade_log :
                Cardinality(OpenedAs(strategy.trade_log[i])) = 1
          /\ \A i, j \in DOMAIN strategy.trade_log :
                i # j => OpenedAs(strategy.trade_log[i])
                           # OpenedAs(strategy.trade_log[j])
          /\ Len(strategy.trade_log) + Len(strategy.pending_trades)
                = Len(strategy.entries))
    /\ [][\A rec \in NewRecords :
            candle'.time >= rec.entry_time + params.expiry_minutes]_vars

\* two trades are settled, one of them on a candle later than its expiry
C35_Witness ==
    /\ Len(strategy.trade_log) >= 2
    /\ \E i \in DOMAIN strategy.trade_log :
          strategy.trade_log[i].expiry_time
              > strategy.trade_log[i].entry_time + params.expiry_minutes

\* C36: the settlement pass leaves last_trade_time and the per-date
\* counters as they were: on a candle that settles trades they change only
\* by the trade the candle opens, if any, so a settled trade still counts in
\* its entry date's daily cap and the minimum gap still runs from its entry.
C36_SettlementFrame ==
    [][NewRecords # {} =>
          LET opens == strategy'.outcome \in {"CALL", "PUT"}
              entry_date == DateOf(candle'.time)
          IN  /\ strategy'.last_trade_time =
                    IF opens THEN candle'.time ELSE strategy.last_trade_time
              /\ \A d \in DOMAIN strategy.daily_trades
                          \cup DOMAIN strategy'.daily_trades :
                    DailyCount(strategy'.daily_trades, d) =
                        DailyCount(strategy.daily_trades, d)
                        + (IF opens /\ d = entry_date THEN 1 ELSE 0)
              /\ Len(strategy'.entries) =
                    Len(strategy.entries) + (IF opens THEN 1 ELSE 0)]_vars

\* every trade of the day is settled, none is pending, and the candle that
\* settled the last of them was refused an entry by the daily cap
C36_Witness ==
    /\ EventsOf("settle") # {}
    /\ strategy.pending_trades = <<>>
    /\ strategy.outcome = "skip"
    /\ DailyCount(strategy.daily_trades, DateOf(candle.time))
          = params.max_trades_per_day
    /\ (candle.time - strategy.last_trade_time) >= params.min_time_between_trades

C37_IdempotentPerId ==
    [][(ncalls' = ncalls + 1 /\ last_call'.result.combination_id \in all_ids) =>
          UNCHANGED <<results_by_winrate, results_by_pnl, results_by_score,
                      all_ids>>]_vars

\* the last call passed an accepted id again, with other metrics than the
\* held result of that id and while the trackers had room
C37_Witness ==
    /\ last_call.dup
    /\ Len(results_by_winrate) < max_results
    /\ \E r \in Held(results_by_winrate) :
          /\ r.combination_id = last_call.result.combination_id
          /\ r.win_rate < last_call.result.win_rate
          /\ r.total_pnl < last_call.result.total_pnl

(***************************************************************************)
(* Properties of optimize_parameters.                                      *)
(***************************************************************************)
\* win_rate * max(0, total_pnl) * min(total_trades / 100, 1), times 10000
ClaimedOptimizeScore(result) ==
    result.win_rate * (IF result.total_pnl > 0 THEN result.total_pnl ELSE 0)
        * (IF result.total_trades < 100 THEN result.total_trades ELSE 100)

\* the configurations whose run has at least 10 trades
Eligible ==
    {i \in DOMAIN optimizer.runs :
        optimizer.runs[i] # <<>> /\ optimizer.runs[i].total_trades >= 10}

\* C38: optimize_parameters returns the first configuration, in list order,
\* that attains the highest score win_rate * max(0, total_pnl)
\* * min(total_trades / 100, 1) among the configurations with at least 10
\* trades, provided that score is positive; otherwise it returns (None, None).
C38_OptimizeParameters ==
    optimizer.done =>
        LET Winners ==
                {i \in Eligible :
                    /\ ClaimedOptimizeScore(optimizer.runs[i]) > 0
                    /\ \A j \in Eligible :
                          ClaimedOptimizeScore(optimizer.runs[j])
                              <= ClaimedOptimizeScore(optimizer.runs[i])}
        IN  /\ Len(optimizer.runs) = Len(param_combinations)
            /\ IF Winners = {}
               THEN optimizer.returned = << <<>>, <<>> >>
               ELSE LET first == CHOOSE i \in Winners :
                                    \A j \in Winners : i <= j
                    IN  optimizer.returned =
                            <<param_combinations[first], optimizer.runs[first]>>

\* the second and the fourth configuration tie for the highest score, the
\* first has too few trades and the third a loss: the second is returned
C38_Witness ==
    /\ optimizer.done
    /\ optimizer.runs[1] # <<>> /\ optimizer.runs[1].total_trades < 10
    /\ optimizer.runs[3] # <<>> /\ optimizer.runs[3].total_pnl < 0
    /\ optimizer.runs[2] # <<>> /\ optimizer.runs[4] # <<>>
    /\ optimizer.runs[2] # optimizer.runs[4]
    /\ optimizer.returned[1] = param_combinations[2]
    /\ optimize_score(optimizer.runs[2]) = optimize_score(optimizer.runs[4])

(***************************************************************************)
(* Properties of the SuperTrend band.                                      *)
(***************************************************************************)
\* C31: while the trend stays up from one candle to the next the supertrend
\* line does not decrease, and while it stays down it does not increase.
C31_BandMonotone ==
    [][/\ (~st.nan /\ st.trend = 1 /\ st'.trend = 1)
            => st'.supertrend >= st.supertrend
       /\ (~st.nan /\ st.trend = 0 - 1 /\ st'.trend = 0 - 1)
            => st'.supertrend <= st.supertrend]_vars

\* the trend has stayed up and the line is above the candle's lower band:
\* the previous line was kept
C31_Witness ==
    /\ ~st.nan /\ st.trend = 1 /\ st.signal_bars >= 2
    /\ st.supertrend > lower_band(candle, params.st_multiplier)

=============================================================================
